---- MODULE Spec2Model ----
(***************************************************************************)
(* CineSearch backend: the /api/search planner, the tmdbFetch upstream     *)
(* client with its node-cache store, and the two per-address limiters.     *)
(*                                                                         *)
(* Strings are sequences of one-character strings.  The alphabet of the    *)
(* request fields is: decimal digits, the space " " (the only whitespace)  *)
(* and the letters "a", "b", "x".                                          *)
(***************************************************************************)
EXTENDS Integers, Sequences, FiniteSets, TLC

\* ------------------------------------------------------------------ bounds
\* Concurrent request slots (in-flight /api/search handlers).
NumSlots == 2
\* The clock stops after this many ticks.
MaxTicks == 4
\* Requests started in one run.
MaxRequests == 2
\* Requests started in one run of the timed specification.
MaxTimedRequests == 3
\* Requests arriving at the limiters in one run, from all addresses and from
\* the second address.
MaxArrivals == 42
MaxOtherArrivals == 1
\* Times the environment moves the limiters' clock in one run.
MaxAdvances == 2
\* Requests of the client that floods and then stays silent, and the moves of
\* its clock.
MaxQuietArrivals == 82
MaxQuietAdvances == 2
\* Movie lookups made, one after the other.
MaxLookups == 2
\* Input events, button events and moves of the clock, together, in one run
\* of the frontend.
MaxFrontEvents == 6
\* Searches the frontend issues in one run.
MaxSearches == 3
\* Fetches whose keys are compared, and parameters of one fetch.
MaxKeyed == 2
MaxKeyParams == 2

\* --------------------------------------------------------- configuration
CACHE_TTL_SECONDS == 600
CACHE_CHECK_PERIOD == 120
\* new Date().getFullYear()
CurrentYear == 2026
\* Granularity of the modelled clock, in seconds.
TickSeconds == CACHE_TTL_SECONDS \div 2

\* ---------------------------------------------------------------- strings
Digits == {"0", "1", "2", "3", "4", "5", "6", "7", "8", "9"}

IsDigit(c) == c \in Digits

DigitVal(c) ==
    CASE c = "0" -> 0 [] c = "1" -> 1 [] c = "2" -> 2 [] c = "3" -> 3
      [] c = "4" -> 4 [] c = "5" -> 5 [] c = "6" -> 6 [] c = "7" -> 7
      [] c = "8" -> 8 [] c = "9" -> 9

DigitChar(d) ==
    CASE d = 0 -> "0" [] d = 1 -> "1" [] d = 2 -> "2" [] d = 3 -> "3"
      [] d = 4 -> "4" [] d = 5 -> "5" [] d = 6 -> "6" [] d = 7 -> "7"
      [] d = 8 -> "8" [] d = 9 -> "9"

RECURSIVE Rep(_, _)
\* "c".repeat(n)
Rep(c, n) == IF n = 0 THEN <<>> ELSE <<c>> \o Rep(c, n - 1)

RECURSIVE TrimStart(_)
TrimStart(s) ==
    IF s # <<>> /\ Head(s) = " " THEN TrimStart(Tail(s)) ELSE s

RECURSIVE TrimEnd(_)
TrimEnd(s) ==
    IF s # <<>> /\ s[Len(s)] = " " THEN TrimEnd(SubSeq(s, 1, Len(s) - 1)) ELSE s

\* String.prototype.trim
Trim(s) == TrimEnd(TrimStart(s))

\* /^\d+$/.test(s)
IsDigits(s) == s # <<>> /\ \A i \in 1..Len(s) : IsDigit(s[i])

RECURSIVE StrToNat(_)
StrToNat(s) ==
    IF s = <<>> THEN 0
    ELSE 10 * StrToNat(SubSeq(s, 1, Len(s) - 1)) + DigitVal(s[Len(s)])

RECURSIVE NatToStr(_)
\* String(n) of a non-negative integer
NatToStr(n) ==
    IF n < 10 THEN <<DigitChar(n)>>
    ELSE NatToStr(n \div 10) \o <<DigitChar(n % 10)>>

\* Number(s) over the alphabet of digits, " ", "a", "b", "x", "-" and ".":
\* surrounding whitespace is stripped; the empty string is 0; "0x" and "0b"
\* open an unsigned hexadecimal or binary literal; otherwise the string must
\* be a decimal literal (an optional "-", digits, an optional "." and
\* fraction digits, with a digit on at least one side of the "."); anything
\* else is NaN.
HexDigits == Digits \cup {"a", "b"}

HexVal(c) == IF c = "a" THEN 10 ELSE IF c = "b" THEN 11 ELSE DigitVal(c)

RECURSIVE RadixToNat(_, _)
RadixToNat(s, radix) ==
    IF s = <<>> THEN 0
    ELSE radix * RadixToNat(SubSeq(s, 1, Len(s) - 1), radix) + HexVal(s[Len(s)])

IsHexLiteral(s) ==
    /\ Len(s) >= 3 /\ s[1] = "0" /\ s[2] = "x"
    /\ \A i \in 3..Len(s) : s[i] \in HexDigits

IsBinLiteral(s) ==
    /\ Len(s) >= 3 /\ s[1] = "0" /\ s[2] = "b"
    /\ \A i \in 3..Len(s) : s[i] \in {"0", "1"}

Unsigned(s) == IF s # <<>> /\ Head(s) = "-" THEN Tail(s) ELSE s

\* Position of the first "." of s, or Len(s) + 1.
DotAt(s) ==
    IF \E i \in 1..Len(s) : s[i] = "."
    THEN CHOOSE i \in 1..Len(s) : s[i] = "." /\ \A j \in 1..(i - 1) : s[j] # "."
    ELSE Len(s) + 1

IntPart(s) == SubSeq(s, 1, DotAt(s) - 1)
FracPart(s) == SubSeq(s, DotAt(s) + 1, Len(s))

\* An integer part ip and a fraction part fp of digits, not both empty.
DecParts(ip, fp) ==
    /\ \A i \in 1..Len(ip) : IsDigit(ip[i])
    /\ \A i \in 1..Len(fp) : IsDigit(fp[i])
    /\ Len(ip) + Len(fp) > 0

\* u is an unsigned decimal literal whose fraction, if any, is zero.
IsWholeDec(u) ==
    /\ DecParts(IntPart(u), FracPart(u))
    /\ \A i \in 1..Len(FracPart(u)) : FracPart(u)[i] = "0"

\* The trimmed string t is a numeric literal with an integer value.
IsIntegerLiteral(t) ==
    \/ t = <<>>
    \/ IsHexLiteral(t)
    \/ IsBinLiteral(t)
    \/ IsWholeDec(Unsigned(t))

\* Number.isInteger(Number(s))
NumberIsInteger(s) == IsIntegerLiteral(Trim(s))

\* The value of the trimmed string t, for t with IsIntegerLiteral(t).
LiteralValue(t) ==
    IF t = <<>> THEN 0
    ELSE IF IsHexLiteral(t) THEN RadixToNat(SubSeq(t, 3, Len(t)), 16)
    ELSE IF IsBinLiteral(t) THEN RadixToNat(SubSeq(t, 3, Len(t)), 2)
    ELSE IF Head(t) = "-" THEN 0 - StrToNat(IntPart(Tail(t)))
    ELSE StrToNat(IntPart(t))

\* Number(s), for s with NumberIsInteger(s)
NumberValue(s) == LiteralValue(Trim(s))

\* ------------------------------------------------------- request fields
\* A query-string field: undefined, or a string.
Undefined == [def |-> FALSE, str |-> <<>>]
Str(s) == [def |-> TRUE, str |-> s]

\* JavaScript truthiness of a field: defined and not the empty string.
Truthy(f) == f.def /\ f.str # <<>>

\* const { ..., page = "1" } = req.query
PageStr(r) == IF r.page.def THEN r.page.str ELSE <<"1">>

PageNum(r) == NumberValue(PageStr(r))

\* YearValid with the lower limit itself refused.
YearValidAbove(y) ==
    /\ NumberIsInteger(y)
    /\ NumberValue(y) > 1880
    /\ NumberValue(y) <= CurrentYear + 5

YearValid(y) ==
    /\ NumberIsInteger(y)
    /\ NumberValue(y) >= 1880
    /\ NumberValue(y) <= CurrentYear + 5

\* PageValid with the upper limit itself refused.
PageValidBelow(p) ==
    /\ NumberIsInteger(p)
    /\ NumberValue(p) >= 1
    /\ NumberValue(p) < 500

PageValid(p) ==
    /\ NumberIsInteger(p)
    /\ NumberValue(p) >= 1
    /\ NumberValue(p) <= 500

\* Validate with the page checked first.
ValidatePageFirst(r) ==
    IF ~PageValid(PageStr(r)) THEN "InvalidPage"
    ELSE IF ~Truthy(r.query) /\ ~Truthy(r.year) /\ ~Truthy(r.genre)
         /\ ~Truthy(r.cast) /\ ~Truthy(r.director)
    THEN "MissingCriteria"
    ELSE IF r.year.def /\ ~YearValid(r.year.str) THEN "InvalidYear"
    ELSE IF r.genre.def /\ ~IsDigits(r.genre.str) THEN "InvalidGenre"
    ELSE "ok"

\* Validate with the genre tested as a number rather than as digits.
ValidateGenreNumber(r) ==
    IF ~Truthy(r.query) /\ ~Truthy(r.year) /\ ~Truthy(r.genre)
         /\ ~Truthy(r.cast) /\ ~Truthy(r.director)
    THEN "MissingCriteria"
    ELSE IF r.year.def /\ ~YearValid(r.year.str) THEN "InvalidYear"
    ELSE IF ~PageValid(PageStr(r)) THEN "InvalidPage"
    ELSE IF r.genre.def /\ ~NumberIsInteger(r.genre.str) THEN "InvalidGenre"
    ELSE "ok"

\* The checks made before the first await: the error, or "ok".
Validate(r) ==
    IF ~Truthy(r.query) /\ ~Truthy(r.year) /\ ~Truthy(r.genre)
         /\ ~Truthy(r.cast) /\ ~Truthy(r.director)
    THEN "MissingCriteria"
    ELSE IF r.year.def /\ ~YearValid(r.year.str) THEN "InvalidYear"
    ELSE IF ~PageValid(PageStr(r)) THEN "InvalidPage"
    ELSE IF r.genre.def /\ ~IsDigits(r.genre.str) THEN "InvalidGenre"
    ELSE "ok"

\* ------------------------------------------------------ upstream params
\* A value as JSON.stringify writes it: its type and its text.
JStr(s) == [t |-> "string", v |-> s]
JNum(n) == [t |-> "number", v |-> NatToStr(n)]
JFalse == [t |-> "boolean", v |-> <<"false">>]

\* A params object is the sequence of its <<name, value>> pairs in insertion
\* order, which is the order JSON.stringify writes them in.
PersonParams(name) ==
    << <<"query", JStr(name)>>, <<"include_adult", JFalse>> >>

TitleParams(r) ==
    << <<"query", JStr(Trim(r.query.str))>>,
       <<"page", JNum(PageNum(r))>>,
       <<"include_adult", JFalse>> >>
    \o (IF Truthy(r.year)
        THEN << <<"primary_release_year", JStr(r.year.str)>> >> ELSE <<>>)

\* fbParams with page added last.
FallbackParamsPageLast(r) ==
    << <<"query", JStr(Trim(r.query.str))>>,
       <<"include_adult", JFalse>>,
       <<"page", JNum(PageNum(r))>> >>
    \o (IF Truthy(r.year)
        THEN << <<"primary_release_year", JStr(r.year.str)>> >> ELSE <<>>)

\* const fbParams = { query: query.trim(), page: pageNum, include_adult: false };
\* if (year) fbParams.primary_release_year = year;
FallbackParams(r) ==
    << <<"query", JStr(Trim(r.query.str))>>,
       <<"page", JNum(PageNum(r))>>,
       <<"include_adult", JFalse>> >>
    \o (IF Truthy(r.year)
        THEN << <<"primary_release_year", JStr(r.year.str)>> >> ELSE <<>>)

\* DiscoverParams with the two person ids swapped.
DiscoverParamsSwapped(r, castId, directorId) ==
    << <<"page", JNum(PageNum(r))>>,
       <<"include_adult", JFalse>>,
       <<"sort_by", JStr(<<"popularity.desc">>)>> >>
    \o (IF Truthy(r.query)
        THEN << <<"with_keywords", JStr(Trim(r.query.str))>> >> ELSE <<>>)
    \o (IF Truthy(r.year)
        THEN << <<"primary_release_year", JStr(r.year.str)>> >> ELSE <<>>)
    \o (IF Truthy(r.genre)
        THEN << <<"with_genres", JStr(r.genre.str)>> >> ELSE <<>>)
    \o (IF castId # 0
        THEN << <<"with_cast", JStr(NatToStr(directorId))>> >> ELSE <<>>)
    \o (IF directorId # 0
        THEN << <<"with_crew", JStr(NatToStr(castId))>> >> ELSE <<>>)

\* castId / directorId: 0 stands for undefined; both are falsy in JavaScript
\* and the handler only ever tests them for truthiness.
DiscoverParams(r, castId, directorId) ==
    << <<"page", JNum(PageNum(r))>>,
       <<"include_adult", JFalse>>,
       <<"sort_by", JStr(<<"popularity.desc">>)>> >>
    \o (IF Truthy(r.query)
        THEN << <<"with_keywords", JStr(Trim(r.query.str))>> >> ELSE <<>>)
    \o (IF Truthy(r.year)
        THEN << <<"primary_release_year", JStr(r.year.str)>> >> ELSE <<>>)
    \o (IF Truthy(r.genre)
        THEN << <<"with_genres", JStr(r.genre.str)>> >> ELSE <<>>)
    \o (IF castId # 0
        THEN << <<"with_cast", JStr(NatToStr(castId))>> >> ELSE <<>>)
    \o (IF directorId # 0
        THEN << <<"with_crew", JStr(NatToStr(directorId))>> >> ELSE <<>>)

\* UseDiscover with any year selecting discovery, title or not.
UseDiscoverAnyYear(r, castId, directorId) ==
    \/ Truthy(r.genre)
    \/ castId # 0
    \/ directorId # 0
    \/ Truthy(r.year)

UseDiscover(r, castId, directorId) ==
    \/ Truthy(r.genre)
    \/ castId # 0
    \/ directorId # 0
    \/ (Truthy(r.year) /\ ~Truthy(r.query))

\* ------------------------------------------------------------------ cache
\* `${path}|${JSON.stringify(params)}`: one key per path and ordered params.
CacheKey(path, params) == <<path, params>>

\* node-cache set(key, value) with stdTTL: the entry expires ttl seconds on.
CacheSet(c, k, d, t) ==
    (k :> [v |-> d, t |-> t + CACHE_TTL_SECONDS]) @@ c

\* Expired with the expiry instant itself counted as expired.
ExpiredInclusive(e, t) == e.t <= t

\* node-cache's expiry test of a stored entry at time t.
Expired(e, t) == e.t < t

CacheDel(c, k) == [x \in (DOMAIN c) \ {k} |-> c[x]]

\* CacheGet that never finds anything.
CacheGetMiss(c, k, t) == [hit |-> FALSE, cache |-> c]

\* node-cache get(key): a live entry is a hit; an expired one is deleted
\* and reads as a miss.
CacheGet(c, k, t) ==
    IF k \notin DOMAIN c THEN [hit |-> FALSE, cache |-> c]
    ELSE IF Expired(c[k], t) THEN [hit |-> FALSE, cache |-> CacheDel(c, k)]
    ELSE [hit |-> TRUE, cache |-> c]

\* The periodic check of node-cache: drops every expired entry.
CacheSweep(c, t) ==
    [x \in {k \in DOMAIN c : ~Expired(c[k], t)} |-> c[x]]

\* ------------------------------------------------------ upstream documents
\* What the handler reads of an upstream document: whether it has a results
\* field, the ids of its results in upstream order, and its paging fields.
Doc(has, results, total, pages, page) ==
    [has |-> has, results |-> results, total_results |-> total,
     total_pages |-> pages, page |-> page]

NoDoc == Doc(FALSE, <<>>, 0, 0, 0)

\* Ids of the people the person-search may return first.
PersonIds == {525, 7}

PersonDocs ==
    {Doc(TRUE, <<>>, 0, 0, 1), Doc(FALSE, <<>>, 0, 0, 1)}
    \cup {Doc(TRUE, <<i, 9>>, 2, 1, 1) : i \in PersonIds}

\* Movie lists: empty, without a results field, and two non-empty ones; the
\* page field is the upstream's own.
MovieDocs ==
    {Doc(TRUE, <<>>, 0, 0, 1), Doc(FALSE, <<>>, 0, 0, 1),
     Doc(TRUE, <<27205>>, 1, 1, 1), Doc(TRUE, <<155, 272>>, 40, 2, 9)}

DocsOf(path) == IF path = "/search/person" THEN PersonDocs ELSE MovieDocs

\* !doc.results || doc.results.length === 0
EmptyResults(d) == ~d.has \/ Len(d.results) = 0

\* ------------------------------------------------------------------ state
VARIABLES
    now,      \* the clock, in seconds
    cache,    \* node-cache store: key -> [v: document, t: expiry time]
    slot,     \* the /api/search handlers, one record per slot
    started,  \* requests started so far
    stored,   \* key -> time of the last cache.set of that key
    lastCold, \* the last search that ended 200 having fetched all it read
    ms,       \* the limiters' clock, in milliseconds
    speedWin, \* speedLimiter's store: address -> [hits, reset]
    rateWin,  \* rateLimiter's store: address -> [hits, reset]
    held,     \* requests speedLimiter is holding, each with its release time
    seen,     \* address -> arrival times of its requests, in order
    reached,  \* address -> times its requests reached rateLimiter, in order
    decs,     \* what rateLimiter decided in the last step, per request
    advances, \* times the limiters' clock was moved by the environment
    movie,    \* the /api/movie/:id handler
    lookups,  \* movie lookups started so far
    ftime,    \* the browser's clock, in milliseconds
    timers,   \* pending setTimeout callbacks of debouncedSearch
    box,      \* searchInput.value
    filters,  \* whether state.filters has a non-empty field
    flog,     \* the input events and the backend queries, in order
    waits,    \* times the browser's clock was moved
    keyed,    \* the upstream fetches whose cache keys were computed
    state,    \* the frontend's state object: query, page, totalPages, results
    grid,     \* the movie cards of resultsGrid
    flights,  \* searches suspended at their apiFetch
    sent,     \* the searches issued, in order
    arrivals  \* the searches answered, in order, each with its outcome

pvars == <<now, cache, slot, started, stored, lastCold>>
lvars == <<ms, speedWin, rateWin, held, seen, reached, decs, advances>>
mvars == <<movie, lookups>>
fvars == <<ftime, timers, box, filters, flog, waits>>
kvars == <<keyed>>
uvars == <<state, grid, flights, sent, arrivals>>
xvars == <<mvars, fvars, kvars, uvars>>
vars == <<pvars, lvars, xvars>>

Slots == 1..NumSlots

NoRequest ==
    [query |-> Undefined, year |-> Undefined, genre |-> Undefined,
     cast |-> Undefined, director |-> Undefined, page |-> Undefined]

NoBody == [results |-> <<>>, total_results |-> 0, total_pages |-> 0, page |-> 0]

NoKey == <<"", <<>>>>

\* An upstream failure: whether one was met (set), whether it carries a
\* response, and that response's status.
NoFailure == [set |-> FALSE, response |-> FALSE, status |-> 0]

\* The ways axios.get fails: a response with a non-2xx status, or none at
\* all (transport error, the 8000 ms timeout).
UpstreamFailures ==
    {[set |-> FALSE, response |-> TRUE, status |-> 404],
     [set |-> FALSE, response |-> TRUE, status |-> 500],
     [set |-> FALSE, response |-> TRUE, status |-> 401],
     [set |-> FALSE, response |-> FALSE, status |-> 0]}

\* The one failure of the concurrent and timed specifications: no response.
CoreFailures == {[set |-> FALSE, response |-> FALSE, status |-> 0]}

NoCold == [req |-> NoRequest, start |-> 0, body |-> NoBody, set |-> FALSE]

\* A handler: pc is "idle" (no request yet), "await" (suspended at the
\* axios.get of tmdbFetch) or "done" (response sent).  stage names the
\* tmdbFetch call the handler is at: "cast", "director", "primary",
\* "fallback", then "reply".  The rest is the record of what the request
\* did: calls lists its tmdbFetch calls, rets the documents they returned,
\* net counts the calls that went to the network, wrote tells whether the
\* request changed the cache, start is its arrival time, warm the earlier
\* identical search (if any) it follows, disturbed whether another request
\* stored into the cache while this one was suspended, fail the upstream
\* failure it met.
IdleSlot ==
    [pc |-> "idle", req |-> NoRequest, stage |-> "cast",
     castId |-> 0, directorId |-> 0, data |-> NoDoc, key |-> NoKey,
     calls |-> <<>>, rets |-> <<>>, net |-> 0, wrote |-> FALSE,
     status |-> 0, err |-> "", body |-> NoBody,
     start |-> 0, warm |-> NoCold, disturbed |-> FALSE, fail |-> NoFailure]

\* res.status(400).json({error})
Reply400(p, e, t) ==
    [p EXCEPT !.pc = "done", !.status = 400, !.err = e]

\* catch (err): res.status(502).json({error})
Reply502(p, t) ==
    [p EXCEPT !.pc = "done", !.status = 502, !.err = "UpstreamUnavailable"]

\* The catch passing on an upstream 404, as the movie handler does.
SearchCatchNotFound(p, f, t) ==
    IF f.response /\ f.status = 404
    THEN [p EXCEPT !.pc = "done", !.status = 404, !.err = "UpstreamNotFound",
                   !.fail = [f EXCEPT !.set = TRUE]]
    ELSE [Reply502(p, t) EXCEPT !.fail = [f EXCEPT !.set = TRUE]]

\* tmdbFetch rejects with failure f: the handler's catch answers 502,
\* whatever f is.
SearchCatch(p, f, t) == [Reply502(p, t) EXCEPT !.fail = [f EXCEPT !.set = TRUE]]

\* ReplyEmpty answering page 1 whatever page was requested.
ReplyEmptyPageOne(p, t) ==
    [p EXCEPT !.pc = "done", !.status = 200,
              !.body = [results |-> <<>>, total_results |-> 0,
                        total_pages |-> 0, page |-> 1]]

\* res.json({results: [], total_results: 0, total_pages: 0, page: pageNum})
ReplyEmpty(p, t) ==
    [p EXCEPT !.pc = "done", !.status = 200,
              !.body = [results |-> <<>>, total_results |-> 0,
                        total_pages |-> 0, page |-> PageNum(p.req)]]

\* ReplyData passing on the page field of the upstream document.
ReplyDataUpstreamPage(p, t) ==
    [p EXCEPT !.pc = "done", !.status = 200,
              !.body = [results |-> IF p.data.has THEN p.data.results ELSE <<>>,
                        total_results |-> p.data.total_results,
                        total_pages |-> p.data.total_pages,
                        page |-> p.data.page]]

\* res.json({results: data.results || [], ..., page: pageNum})
ReplyData(p, t) ==
    [p EXCEPT !.pc = "done", !.status = 200,
              !.body = [results |-> IF p.data.has THEN p.data.results ELSE <<>>,
                        total_results |-> p.data.total_results,
                        total_pages |-> p.data.total_pages,
                        page |-> PageNum(p.req)]]

\* Resume falling back on every empty primary result, discovery or not.
ResumeFallbackAlways(p0, d, t) ==
    LET p == [p0 EXCEPT !.rets = Append(@, d)] IN
    CASE p.stage = "cast" ->
            IF EmptyResults(d) THEN ReplyEmpty(p, t)
            ELSE [p EXCEPT !.castId = Head(d.results), !.stage = "director"]
      [] p.stage = "director" ->
            IF EmptyResults(d) THEN ReplyEmpty(p, t)
            ELSE [p EXCEPT !.directorId = Head(d.results), !.stage = "primary"]
      [] p.stage = "primary" ->
            IF Truthy(p.req.query) /\ EmptyResults(d)
            THEN [p EXCEPT !.data = d, !.stage = "fallback"]
            ELSE [p EXCEPT !.data = d, !.stage = "reply"]
      [] p.stage = "fallback" -> [p EXCEPT !.data = d, !.stage = "reply"]

\* Resume falling back on an empty discovery result even without a title.
ResumeFallbackNoTitle(p0, d, t) ==
    LET p == [p0 EXCEPT !.rets = Append(@, d)] IN
    CASE p.stage = "cast" ->
            IF EmptyResults(d) THEN ReplyEmpty(p, t)
            ELSE [p EXCEPT !.castId = Head(d.results), !.stage = "director"]
      [] p.stage = "director" ->
            IF EmptyResults(d) THEN ReplyEmpty(p, t)
            ELSE [p EXCEPT !.directorId = Head(d.results), !.stage = "primary"]
      [] p.stage = "primary" ->
            IF UseDiscover(p.req, p.castId, p.directorId) /\ EmptyResults(d)
            THEN [p EXCEPT !.data = d, !.stage = "fallback"]
            ELSE [p EXCEPT !.data = d, !.stage = "reply"]
      [] p.stage = "fallback" -> [p EXCEPT !.data = d, !.stage = "reply"]

\* Resume taking the last person returned rather than the first.
ResumeLastPerson(p0, d, t) ==
    LET p == [p0 EXCEPT !.rets = Append(@, d)] IN
    CASE p.stage = "cast" ->
            IF EmptyResults(d) THEN ReplyEmpty(p, t)
            ELSE [p EXCEPT !.castId = d.results[Len(d.results)],
                           !.stage = "director"]
      [] p.stage = "director" ->
            IF EmptyResults(d) THEN ReplyEmpty(p, t)
            ELSE [p EXCEPT !.directorId = d.results[Len(d.results)],
                           !.stage = "primary"]
      [] p.stage = "primary" ->
            IF UseDiscover(p.req, p.castId, p.directorId)
                 /\ Truthy(p.req.query) /\ EmptyResults(d)
            THEN [p EXCEPT !.data = d, !.stage = "fallback"]
            ELSE [p EXCEPT !.data = d, !.stage = "reply"]
      [] p.stage = "fallback" -> [p EXCEPT !.data = d, !.stage = "reply"]

\* The handler's continuation once tmdbFetch has returned document d for the
\* call of stage p.stage.
Resume(p0, d, t) ==
    LET p == [p0 EXCEPT !.rets = Append(@, d)] IN
    CASE p.stage = "cast" ->
            IF EmptyResults(d) THEN ReplyEmpty(p, t)
            ELSE [p EXCEPT !.castId = Head(d.results), !.stage = "director"]
      [] p.stage = "director" ->
            IF EmptyResults(d) THEN ReplyEmpty(p, t)
            ELSE [p EXCEPT !.directorId = Head(d.results), !.stage = "primary"]
      [] p.stage = "primary" ->
            IF UseDiscover(p.req, p.castId, p.directorId)
                 /\ Truthy(p.req.query) /\ EmptyResults(d)
            THEN [p EXCEPT !.data = d, !.stage = "fallback"]
            ELSE [p EXCEPT !.data = d, !.stage = "reply"]
      [] p.stage = "fallback" -> [p EXCEPT !.data = d, !.stage = "reply"]

\* The path and params of the tmdbFetch call of stage p.stage.
CallPath(p) ==
    CASE p.stage \in {"cast", "director"} -> "/search/person"
      [] p.stage = "primary" ->
            IF UseDiscover(p.req, p.castId, p.directorId)
            THEN "/discover/movie" ELSE "/search/movie"
      [] p.stage = "fallback" -> "/search/movie"

CallParams(p) ==
    CASE p.stage = "cast" -> PersonParams(Trim(p.req.cast.str))
      [] p.stage = "director" -> PersonParams(Trim(p.req.director.str))
      [] p.stage = "primary" ->
            IF UseDiscover(p.req, p.castId, p.directorId)
            THEN DiscoverParams(p.req, p.castId, p.directorId)
            ELSE TitleParams(p.req)
      [] p.stage = "fallback" -> FallbackParams(p.req)

RECURSIVE Run(_, _, _, _)
\* tmdbFetch(path, params) up to its axios.get: a cache hit resumes the
\* handler with the cached document, a miss suspends it at the network call.
\* st is the record of store times; each call is logged with the age of the
\* last store of its key (-1: never stored) and whether the store still held
\* the key when it was read.
\* tmdbFetch from the answer got of cache.get(key) on: q is the handler with
\* the call noted.
TmdbFetchGot(q, c, t, st, key, got) ==
    IF got.hit THEN Run(Resume(q, c[key].v, t), got.cache, t, st)
    ELSE [p |-> [q EXCEPT !.pc = "await", !.key = key, !.net = @ + 1],
          c |-> got.cache]

\* tmdbFetch(path, params) with its cacheKey and what cache.get answers.
TmdbFetchKey(p, c, t, st, path, params, key, got) ==
    TmdbFetchGot(
        [p EXCEPT !.calls = Append(@, [stage |-> p.stage, path |-> path,
                                       params |-> params,
                                       hit |-> got.hit,
                                       age |-> IF key \in DOMAIN st
                                               THEN t - st[key] ELSE -1,
                                       held |-> key \in DOMAIN c]),
                  !.wrote = @ \/ (got.cache # c)],
        c, t, st, key, got)

TmdbFetchCall(p, c, t, st, path, params, key) ==
    TmdbFetchKey(p, c, t, st, path, params, key, CacheGet(c, key, t))

\* The tmdbFetch call the handler makes at stage p.stage.
TmdbFetchAt(p, c, t, st, path, params) ==
    TmdbFetchCall(p, c, t, st, path, params, CacheKey(path, params))

TmdbFetch(p, c, t, st) == TmdbFetchAt(p, c, t, st, CallPath(p), CallParams(p))

\* The handler from stage p.stage on, run until it suspends at a network call
\* or sends its response: the handler state and the cache it leaves.
Run(p, c, t, st) ==
    CASE p.pc = "done" -> [p |-> p, c |-> c]
      [] p.pc # "done" /\ p.stage = "cast" ->
            IF ~Truthy(p.req.cast) THEN Run([p EXCEPT !.stage = "director"], c, t, st)
            ELSE IF Len(Trim(p.req.cast.str)) > 100
            THEN [p |-> Reply400(p, "NameTooLong", t), c |-> c]
            ELSE TmdbFetch(p, c, t, st)
      [] p.pc # "done" /\ p.stage = "director" ->
            IF ~Truthy(p.req.director) THEN Run([p EXCEPT !.stage = "primary"], c, t, st)
            ELSE IF Len(Trim(p.req.director.str)) > 100
            THEN [p |-> Reply400(p, "NameTooLong", t), c |-> c]
            ELSE TmdbFetch(p, c, t, st)
      [] p.pc # "done" /\ p.stage = "primary" ->
            \* query.trim() of an undefined query throws: the catch answers 502
            IF ~UseDiscover(p.req, p.castId, p.directorId) /\ ~p.req.query.def
            THEN [p |-> Reply502(p, t), c |-> c]
            ELSE TmdbFetch(p, c, t, st)
      [] p.pc # "done" /\ p.stage = "fallback" -> TmdbFetch(p, c, t, st)
      [] p.pc # "done" /\ p.stage = "reply" -> [p |-> ReplyData(p, t), c |-> c]

\* app.get("/api/search"): the handler of request r from its first line.
Search(r, c, t, st) ==
    LET p == [IdleSlot EXCEPT !.pc = "run", !.req = r, !.start = t]
    IN  IF Validate(r) # "ok" THEN [p |-> Reply400(p, Validate(r), t), c |-> c]
        ELSE Run(p, c, t, st)

\* --------------------------------------------------------------- requests
S(str) == Str(str)

QueryVals == {Undefined, S(<<>>), S(<<"a">>), S(<<" ", "a", " ">>)}
YearVals == {Undefined, S(<<"2", "0", "1", "0">>), S(<<"1", "8", "0", "0">>)}
GenreVals == {Undefined, S(<<"2", "8">>), S(<<"x">>)}
CastVals == {Undefined, S(<<"a">>), S(<<" ">> \o Rep("b", 100)), S(Rep("b", 101))}
DirectorVals == {Undefined, S(<<"a">>), S(<<"x">>), S(Rep("x", 101))}
PageVals == {Undefined, S(<<"2">>), S(<<"0">>)}

\* Every combination of the field values above.
Requests ==
    [query : QueryVals, year : YearVals, genre : GenreVals,
     cast : CastVals, director : DirectorVals, page : PageVals]

Req(q, y, g, c, d, pg) ==
    [query |-> q, year |-> y, genre |-> g, cast |-> c, director |-> d,
     page |-> pg]

\* The requests of the concurrent specification: title only; title and genre;
\* cast and director; cast and an over-long director; no field at all.
CoreRequests ==
    {Req(S(<<"a">>), Undefined, Undefined, Undefined, Undefined, Undefined),
     Req(S(<<"a">>), Undefined, S(<<"2", "8">>), Undefined, Undefined, Undefined),
     Req(Undefined, Undefined, Undefined, S(<<"a">>), S(<<"x">>), S(<<"2">>)),
     Req(Undefined, Undefined, Undefined, S(<<"a">>), S(Rep("x", 101)), Undefined),
     NoRequest}

\* ----------------------------------------------------------- movie detail
\* The handler of GET /api/movie/:id: pc as for a search handler; id is the
\* route parameter; reads counts the cache reads, net the network calls;
\* fail records the upstream failure met, if any.
NoDetail == [id |-> 0, title |-> ""]

IdleMovie ==
    [pc |-> "idle", id |-> <<>>, key |-> NoKey, reads |-> 0, net |-> 0,
     status |-> 0, err |-> "", body |-> NoDetail, fail |-> NoFailure]

\* The id test letting 0 through.
MovieIdValidZero(id) == NumberIsInteger(id) /\ NumberValue(id) >= 0

\* Number.isInteger(movieId) && movieId > 0
MovieIdValid(id) == NumberIsInteger(id) /\ NumberValue(id) > 0

\* `/movie/${movieId}`
MoviePath(id) == <<"/movie/">> \o NatToStr(NumberValue(id))

MovieParams ==
    << <<"append_to_response",
         JStr(<<"credits,videos,images,recommendations,reviews">>)>> >>

\* The handler of id from its first line to its response or to the network
\* call of tmdbFetch.
MovieLookup(id, c, t) ==
    LET p == [IdleMovie EXCEPT !.id = id]
    IN  IF ~MovieIdValid(id)
        THEN [p |-> [p EXCEPT !.pc = "done", !.status = 400,
                              !.err = "InvalidMovieId"],
              c |-> c]
        ELSE LET key == CacheKey(MoviePath(id), MovieParams)
                 got == CacheGet(c, key, t)
             IN  IF got.hit
                 THEN [p |-> [p EXCEPT !.pc = "done", !.status = 200,
                                       !.key = key, !.reads = 1,
                                       !.body = c[key].v],
                       c |-> got.cache]
                 ELSE [p |-> [p EXCEPT !.pc = "await", !.key = key,
                                       !.reads = 1, !.net = 1],
                       c |-> got.cache]

\* catch (err): status 404 of the upstream response is passed on, anything
\* else is answered 502.
MovieCatch(p, f) ==
    IF f.response /\ f.status = 404
    THEN [p EXCEPT !.pc = "done", !.status = 404, !.err = "UpstreamNotFound",
                   !.fail = [f EXCEPT !.set = TRUE]]
    ELSE [p EXCEPT !.pc = "done", !.status = 502,
                   !.err = "UpstreamUnavailable",
                   !.fail = [f EXCEPT !.set = TRUE]]

\* Route parameters tried.
MovieIdVals ==
    {<<"5">>, <<"0">>, <<"-", "5">>, <<"1", ".", "5">>, <<"x">>, <<" ">>,
     <<"7", ".", "0">>, <<"0", "x", "5">>, <<"1", "2">>}

MovieDetailDocs == {[id |-> 5, title |-> "t1"], [id |-> 5, title |-> "t2"]}

\* ---------------------------------------------------------------- actions
\* Client addresses (req.ip).
Addrs == {"ip1", "ip2"}

NoWindow == [hits |-> 0, reset |-> 0]

Init ==
    /\ now = 0
    /\ cache = <<>>
    /\ slot = [s \in Slots |-> IdleSlot]
    /\ started = 0
    /\ stored = <<>>
    /\ lastCold = NoCold
    /\ ms = 0
    /\ speedWin = [a \in Addrs |-> NoWindow]
    /\ rateWin = [a \in Addrs |-> NoWindow]
    /\ held = {}
    /\ seen = [a \in Addrs |-> <<>>]
    /\ reached = [a \in Addrs |-> <<>>]
    /\ decs = {}
    /\ advances = 0
    /\ movie = IdleMovie
    /\ lookups = 0
    /\ ftime = 0
    /\ timers = {}
    /\ box = <<>>
    /\ filters = FALSE
    /\ flog = <<>>
    /\ waits = 0
    /\ keyed = <<>>
    /\ state = [query |-> <<>>, page |-> 1, totalPages |-> 1, results |-> <<>>]
    /\ grid = <<>>
    /\ flights = {}
    /\ sent = <<>>
    /\ arrivals = <<>>

\* Every tmdbFetch call of p that was the first for its key went to the
\* network.
Cold(p) ==
    /\ p.calls # <<>>
    /\ \A i \in 1..Len(p.calls) :
          p.calls[i].hit =>
             \E j \in 1..(i - 1) :
                /\ p.calls[j].path = p.calls[i].path
                /\ p.calls[j].params = p.calls[i].params
                /\ ~p.calls[j].hit

ColdOf(p) == [req |-> p.req, start |-> p.start, body |-> p.body, set |-> TRUE]

\* A request arrives at a free handler and runs to its first network call or
\* to its response.
Start(s, r) ==
    /\ slot[s].pc \in {"idle", "done"}
    /\ \A x \in Slots : x < s => slot[x].pc = "await"
    /\ LET res == Search(r, cache, now, stored)
           w == IF lastCold.set /\ lastCold.req = r THEN lastCold ELSE NoCold
       IN  /\ slot' = [slot EXCEPT ![s] = [res.p EXCEPT !.warm = w]]
           /\ cache' = res.c
    /\ started' = started + 1
    /\ UNCHANGED <<now, stored, lastCold, lvars, xvars>>

\* axios.get resolves with document d: tmdbFetch stores it and returns it,
\* and the handler runs on.
NetReply(s, d) ==
    /\ slot[s].pc = "await"
    /\ d \in DocsOf(slot[s].key[1])
    /\ LET c1 == CacheSet(cache, slot[s].key, d, now)
           p1 == [slot[s] EXCEPT !.pc = "run", !.wrote = TRUE]
           st1 == (slot[s].key :> now) @@ stored
           res == Run(Resume(p1, d, now), c1, now, st1)
       IN  /\ slot' = [x \in Slots |->
                         IF x = s THEN res.p
                         ELSE IF slot[x].pc = "await"
                         THEN [slot[x] EXCEPT !.disturbed = TRUE]
                         ELSE slot[x]]
           /\ cache' = res.c
           /\ stored' = st1
           /\ lastCold' = IF /\ res.p.pc = "done" /\ res.p.status = 200
                             /\ Cold(res.p) /\ ~res.p.disturbed
                          THEN ColdOf(res.p) ELSE NoCold
    /\ UNCHANGED <<now, started, lvars, xvars>>

\* A tmdbFetch that stores a document under the key when the fetch failed.
NetFailStoring(s, f) ==
    /\ slot[s].pc = "await"
    /\ slot' = [slot EXCEPT ![s] = SearchCatch(@, f, now)]
    /\ cache' = CacheSet(cache, slot[s].key, NoDoc, now)
    /\ UNCHANGED <<now, started, stored, lastCold, lvars, xvars>>

\* axios.get without its timeout option: it rejects only when the upstream
\* has answered.
NetFailAnsweredOnly(s, f) ==
    /\ slot[s].pc = "await"
    /\ f.response
    /\ slot' = [slot EXCEPT ![s] = SearchCatch(@, f, now)]
    /\ UNCHANGED <<now, cache, started, stored, lastCold, lvars, xvars>>

\* axios.get rejects (transport error, timeout, non-2xx): tmdbFetch throws
\* and the handler's catch answers 502.
NetFail(s, f) ==
    /\ slot[s].pc = "await"
    /\ slot' = [slot EXCEPT ![s] = SearchCatch(@, f, now)]
    /\ UNCHANGED <<now, cache, started, stored, lastCold, lvars, xvars>>

\* Time passes.
Tick ==
    /\ now < MaxTicks * TickSeconds
    /\ now' = now + TickSeconds
    /\ UNCHANGED <<cache, slot, started, stored, lastCold, lvars, xvars>>

\* node-cache's periodic check, every CACHE_CHECK_PERIOD seconds.
Sweep ==
    /\ now % CACHE_CHECK_PERIOD = 0
    /\ CacheSweep(cache, now) # cache
    /\ cache' = CacheSweep(cache, now)
    /\ UNCHANGED <<now, slot, started, stored, lastCold, lvars, xvars>>

\* Documents the upstream answers with in the concurrent specification.
CoreDocs ==
    {Doc(TRUE, <<>>, 0, 0, 1), Doc(TRUE, <<525, 9>>, 2, 1, 1),
     Doc(TRUE, <<7, 9>>, 2, 1, 1), Doc(TRUE, <<155, 272>>, 40, 2, 9)}

\* Concurrent handlers sharing the cache; the clock stands still.
Arrive(s, r) ==
    /\ started < MaxRequests
    /\ Start(s, r)

Next ==
    \/ \E s \in Slots, r \in CoreRequests : Arrive(s, r)
    \/ \E s \in Slots, d \in CoreDocs : NetReply(s, d)
    \/ \E s \in Slots, f \in CoreFailures : NetFail(s, f)

Spec == Init /\ [][Next]_vars

\* axios.get's timer (timeout: 8000) ends the fetch handler s is suspended
\* at: the request is rejected without a response.
Timeout(s) == NetFail(s, [set |-> FALSE, response |-> FALSE, status |-> 0])

\* The requests of the specification with timers: a title with a genre
\* (discovery, then the title fallback), a cast alone, and no field at all.
LiveRequests ==
    {Req(S(<<"a">>), Undefined, S(<<"2", "8">>), Undefined, Undefined, Undefined),
     Req(Undefined, Undefined, Undefined, S(<<"a">>), Undefined, Undefined),
     NoRequest}

NextLive ==
    \/ \E s \in Slots, r \in LiveRequests : Arrive(s, r)
    \/ \E s \in Slots, d \in CoreDocs : NetReply(s, d)
    \/ \E s \in Slots, f \in CoreFailures : NetFail(s, f)

\* The concurrent handlers, with the timer of every fetch firing unless the
\* fetch has ended before: the upstream is free never to answer.
SpecLive == Init /\ [][NextLive]_vars /\ \A s \in Slots : WF_vars(Timeout(s))

\* One request over every combination of field values arrives at the idle
\* server.
StartPlan(s, r) ==
    /\ started = 0
    /\ Start(s, r)

\* The same request is sent again once it has been answered.
Repeat(s) ==
    /\ started > 0
    /\ started < MaxRequests
    /\ slot[s].pc = "done"
    /\ Start(s, slot[s].req)

NextPlan ==
    \/ /\ started = 0
       /\ \E s \in Slots, r \in Requests : StartPlan(s, r)
    \/ \E s \in Slots : Repeat(s)
    \/ \E s \in Slots, d \in PersonDocs \cup MovieDocs : NetReply(s, d)
    \/ \E s \in Slots, f \in UpstreamFailures : NetFail(s, f)

SpecPlan == Init /\ [][NextPlan]_vars

\* The requests and documents of the timed specification: title only, and
\* title with genre (discovery, then the title fallback).
TimeRequests ==
    {Req(S(<<"a">>), Undefined, Undefined, Undefined, Undefined, Undefined),
     Req(S(<<"a">>), Undefined, S(<<"2", "8">>), Undefined, Undefined, Undefined)}

TimeDocs == {Doc(TRUE, <<>>, 0, 0, 1), Doc(TRUE, <<155, 272>>, 40, 2, 9)}

\* A request arrives while no other is in flight.
ArriveTimed(s, r) ==
    /\ started < MaxTimedRequests
    /\ \A x \in Slots : slot[x].pc # "await"
    /\ Start(s, r)

\* Requests one after the other, the clock and the periodic check of the
\* cache.
NextTime ==
    \/ \E s \in Slots, r \in TimeRequests : ArriveTimed(s, r)
    \/ \E s \in Slots, d \in TimeDocs : NetReply(s, d)
    \/ \E s \in Slots, f \in CoreFailures : NetFail(s, f)
    \/ Tick
    \/ Sweep

SpecTime == Init /\ [][NextTime]_vars

\* The request the concurrent handlers all serve: one upstream call, one key.
RaceRequests ==
    {Req(S(<<"a">>), Undefined, Undefined, Undefined, Undefined, Undefined)}

\* A request arrives, whatever the other handlers are doing.
ArriveRace(s, r) ==
    /\ started < MaxRequests
    /\ Start(s, r)

\* Concurrent handlers sharing the cache, the clock and the periodic check
\* of the cache.
NextRace ==
    \/ \E s \in Slots, r \in RaceRequests : ArriveRace(s, r)
    \/ \E s \in Slots, d \in TimeDocs : NetReply(s, d)
    \/ \E s \in Slots, f \in CoreFailures : NetFail(s, f)
    \/ Tick
    \/ Sweep

SpecRace == Init /\ [][NextRace]_vars

\* Field values for the validation specification: undefined, empty, and the
\* values on both sides of every bound the handler checks.
VQueryVals == {Undefined, S(<<>>), S(<<"a">>)}
VYearVals ==
    {Undefined, S(<<>>), S(<<"x">>), S(NatToStr(1879)), S(NatToStr(1880)),
     S(NatToStr(CurrentYear + 5)), S(NatToStr(CurrentYear + 6)),
     S(<<"-">> \o NatToStr(1880)), S(NatToStr(1880) \o <<".", "5">>),
     S(<<" ">> \o NatToStr(1880)), S(<<"0", "x", "7", "a", "b">>)}
VGenreVals ==
    {Undefined, S(<<>>), S(<<"2", "8">>), S(<<"x">>), S(<<" ", "2", "8">>)}
VCastVals == {Undefined, S(<<>>), S(<<"a">>), S(Rep("b", 101))}
VDirectorVals == {Undefined, S(<<>>), S(<<" ">> \o Rep("x", 100)), S(Rep("x", 101))}
VPageVals ==
    {Undefined, S(<<>>), S(<<"x">>), S(<<"0">>), S(<<"1">>),
     S(NatToStr(500)), S(NatToStr(501)),
     S(<<"-", "1">>), S(<<"1", ".", "5">>), S(<<"0", "b", "1", "0">>)}

ValRequests ==
    [query : VQueryVals, year : VYearVals, genre : VGenreVals,
     cast : VCastVals, director : VDirectorVals, page : VPageVals]

\* One request arrives at the idle server: the handler up to its first await.
NextValidate ==
    /\ started = 0
    /\ \E s \in Slots, r \in ValRequests : StartPlan(s, r)

SpecValidate == Init /\ [][NextValidate]_vars

\* ------------------------------------------------------ movie detail runs
\* A lookup of id arrives while no other is in flight.
MovieStart(id) ==
    /\ movie.pc \in {"idle", "done"}
    /\ lookups < MaxLookups
    /\ LET res == MovieLookup(id, cache, now)
       IN  /\ movie' = res.p
           /\ cache' = res.c
    /\ lookups' = lookups + 1
    /\ UNCHANGED <<now, slot, started, stored, lastCold, lvars, fvars, kvars, uvars>>

\* axios.get resolves with document d: tmdbFetch stores it and the handler
\* answers with it.
MovieNetReply(d) ==
    /\ movie.pc = "await"
    /\ cache' = CacheSet(cache, movie.key, d, now)
    /\ movie' = [movie EXCEPT !.pc = "done", !.status = 200, !.body = d]
    /\ UNCHANGED <<now, slot, started, stored, lastCold, lvars, lookups, fvars, kvars, uvars>>

\* axios.get rejects with failure f.
MovieNetFail(f) ==
    /\ movie.pc = "await"
    /\ movie' = MovieCatch(movie, f)
    /\ UNCHANGED <<now, cache, slot, started, stored, lastCold, lvars, lookups, fvars, kvars, uvars>>

NextMovie ==
    \/ \E id \in MovieIdVals : MovieStart(id)
    \/ \E d \in MovieDetailDocs : MovieNetReply(d)
    \/ \E f \in UpstreamFailures : MovieNetFail(f)

SpecMovie == Init /\ [][NextMovie]_vars

\* --------------------------------------------------------------- frontend
DEBOUNCE_MS == 400
MIN_QUERY_LENGTH == 2

\* An input event with value v at time t.
InputEvent(v, t) ==
    [type |-> "input", t |-> t, v |-> v, by |-> "", kind |-> "", hasq |-> FALSE]

\* A backend query issued at time t by handler by: kind is "search" or
\* "trending"; hasq tells whether it carries a query parameter, v.
QueryEvent(kind, hasq, v, by, t) ==
    [type |-> "query", t |-> t, v |-> IF hasq THEN v ELSE <<>>, by |-> by,
     kind |-> kind, hasq |-> hasq]

\* debounce without the clearTimeout.
DebounceNoClear(ts, v, t) == ts \cup {[due |-> t + DEBOUNCE_MS, v |-> v]}

\* A call of the debounced function with value v at time t: the pending
\* timer, if any, is cleared and a new one set.
Debounce(ts, v, t) == {[due |-> t + DEBOUNCE_MS, v |-> v]}

\* performSearch(query) up to its apiFetch: the queries it issues.
PerformSearch(q, hasFilters, by, t) ==
    LET hasQuery == Len(q) >= MIN_QUERY_LENGTH
    IN  IF ~hasQuery /\ ~hasFilters THEN <<>>
        ELSE <<QueryEvent("search", hasQuery, q, by, t)>>

\* showTrending() up to its apiFetch.
ShowTrending(by, t) == <<QueryEvent("trending", FALSE, <<>>, by, t)>>

\* The function debouncedSearch wraps, called with value v.
SearchCallback(v, hasFilters, t) ==
    LET q == Trim(v)
    IN  IF Len(q) >= MIN_QUERY_LENGTH \/ hasFilters
        THEN PerformSearch(q, hasFilters, "input", t)
        ELSE IF Len(q) = 0 /\ ~hasFilters THEN ShowTrending("input", t)
        ELSE <<>>

InputVals == {<<>>, <<"a">>, <<" ", "a", "b">>}

\* Events so far: those of the user in the log, and the moves of the clock.
FrontEvents ==
    Cardinality({i \in 1..Len(flog) : flog[i].type # "query"}) + waits

\* The user types: searchInput fires an input event with value v.
FrontInput(v) ==
    /\ FrontEvents < MaxFrontEvents
    /\ box' = v
    /\ timers' = Debounce(timers, v, ftime)
    /\ flog' = Append(flog, InputEvent(v, ftime))
    /\ UNCHANGED <<ftime, filters, waits, pvars, lvars, mvars, kvars, uvars>>

\* A pending timer that is due runs its callback.
FrontTimer(tm) ==
    /\ tm \in timers
    /\ tm.due <= ftime
    /\ timers' = timers \ {tm}
    /\ flog' = flog \o SearchCallback(tm.v, filters, ftime)
    /\ UNCHANGED <<ftime, box, filters, waits, pvars, lvars, mvars, kvars, uvars>>

\* The filter form is submitted, with some filter set (f) or none.
FrontSubmit(f) ==
    /\ FrontEvents < MaxFrontEvents
    /\ filters' = f
    /\ flog' = Append(flog, [InputEvent(<<>>, ftime) EXCEPT !.type = "click"])
                \o PerformSearch(Trim(box), f, "submit", ftime)
    /\ UNCHANGED <<ftime, timers, box, waits, pvars, lvars, mvars, kvars, uvars>>

\* The clear button is clicked.
FrontClear ==
    /\ FrontEvents < MaxFrontEvents
    /\ box' = <<>>
    /\ flog' = Append(flog, [InputEvent(<<>>, ftime) EXCEPT !.type = "click"])
                \o (IF filters THEN PerformSearch(<<>>, filters, "clear", ftime)
                    ELSE ShowTrending("clear", ftime))
    /\ UNCHANGED <<ftime, timers, filters, waits, pvars, lvars, mvars, kvars, uvars>>

WaitSteps == {100, DEBOUNCE_MS}

\* Time passes by d milliseconds, not beyond the moment a timer is due.
FrontWait(d) ==
    /\ FrontEvents < MaxFrontEvents
    /\ \A tm \in timers : ftime + d <= tm.due
    /\ ftime' = ftime + d
    /\ waits' = waits + 1
    /\ UNCHANGED <<timers, box, filters, flog, pvars, lvars, mvars, kvars, uvars>>

NextFront ==
    \/ \E v \in InputVals : FrontInput(v)
    \/ \E tm \in timers : FrontTimer(tm)
    \/ \E f \in BOOLEAN : FrontSubmit(f)
    \/ FrontClear
    \/ \E d \in WaitSteps : FrontWait(d)

SpecFront == Init /\ [][NextFront]_vars

\* ------------------------------------------------- searches in flight
\* The title searches the user makes (no filter is set).
UiQueries == {<<"a", "a">>, <<"b", "b">>}

\* What the backend answers to a search for q, page p: one movie per page, of
\* two pages.
UiDoc(q, p) ==
    [results |-> <<10 * (IF q = <<"a", "a">> THEN 1 ELSE 2) + p>>,
     page |-> p, total_pages |-> 2]

\* performSearch(query, page, append) up to its apiFetch:
\* if (!append) { renderSkeletons(resultsGrid, 12); state.results = []; }
SearchIssued(st, append) ==
    IF append THEN st ELSE [st EXCEPT !.results = <<>>]

GridIssued(g, append) == IF append THEN g ELSE <<>>

\* performSearch after its apiFetch has resolved with data:
\* state.page = data.page; state.totalPages = data.total_pages;
\* state.query = query; data.results.forEach(m => state.results.push(m))
SearchAnswered(st, f, data) ==
    [st EXCEPT !.page = data.page, !.totalPages = data.total_pages,
               !.query = f.query, !.results = @ \o data.results]

\* if (!append) resultsGrid.innerHTML = ""; then a card per result.
GridAnswered(g, f, data) == (IF f.append THEN g ELSE <<>>) \o data.results

\* catch: showError(...); if (!append) resultsGrid.innerHTML = ""
GridFailed(g, f) == IF f.append THEN g ELSE <<>>

\* performSearch(q, page, append) is called and suspends at its apiFetch.
UiIssue(q, page, append) ==
    /\ Len(sent) < MaxSearches
    /\ PerformSearch(q, FALSE, "input", 0) # <<>>
    /\ LET f == [n |-> Len(sent) + 1, query |-> q, page |-> page,
                 append |-> append]
       IN  /\ flights' = flights \cup {f}
           /\ sent' = Append(sent, f)
    /\ state' = SearchIssued(state, append)
    /\ grid' = GridIssued(grid, append)
    /\ UNCHANGED <<arrivals, pvars, lvars, mvars, fvars, kvars>>

\* debouncedSearch's callback runs performSearch(q).
UiSearch(q) == UiIssue(q, 1, FALSE)

\* loadMoreBtn click: if (state.page < state.totalPages)
\*     performSearch(state.query, state.page + 1, true)
UiLoadMore ==
    /\ state.page < state.totalPages
    /\ UiIssue(state.query, state.page + 1, TRUE)

\* The answer to search f arrives.
UiResponse(f) ==
    /\ f \in flights
    /\ flights' = flights \ {f}
    /\ state' = SearchAnswered(state, f, UiDoc(f.query, f.page))
    /\ grid' = GridAnswered(grid, f, UiDoc(f.query, f.page))
    /\ arrivals' = Append(arrivals, [n |-> f.n, ok |-> TRUE])
    /\ UNCHANGED <<sent, pvars, lvars, mvars, fvars, kvars>>

\* apiFetch of search f throws.
UiFailure(f) ==
    /\ f \in flights
    /\ flights' = flights \ {f}
    /\ grid' = GridFailed(grid, f)
    /\ arrivals' = Append(arrivals, [n |-> f.n, ok |-> FALSE])
    /\ UNCHANGED <<state, sent, pvars, lvars, mvars, fvars, kvars>>

NextUi ==
    \/ \E q \in UiQueries : UiSearch(q)
    \/ UiLoadMore
    \/ \E f \in flights : UiResponse(f)
    \/ \E f \in flights : UiFailure(f)

SpecUi == Init /\ [][NextUi]_vars

\* -------------------------------------------------------------- cache keys
KeyPaths == {"/search/movie", "/discover/movie"}

ParamPool ==
    {<<"page", JNum(1)>>, <<"page", JNum(2)>>, <<"page", JStr(<<"1">>)>>,
     <<"with_genres", JStr(<<"2", "8">>)>>}

\* The params objects tmdbFetch may be handed: properties of distinct names,
\* in any insertion order.
ParamObjects ==
    {ps \in UNION {[1..n -> ParamPool] : n \in 0..MaxKeyParams} :
        \A i, j \in DOMAIN ps : ps[i][1] = ps[j][1] => i = j}

\* tmdbFetch(path, params) up to its cacheKey.
KeyOf(path, params) ==
    /\ Len(keyed) < MaxKeyed
    /\ keyed' = Append(keyed, [path |-> path, params |-> params,
                               key |-> CacheKey(path, params)])
    /\ UNCHANGED <<pvars, lvars, mvars, fvars, uvars>>

NextKey == \E path \in KeyPaths, params \in ParamObjects : KeyOf(path, params)

SpecKey == Init /\ [][NextKey]_vars

\* ---------------------------------------------------------------- limiters
\* app.use("/api/", speedLimiter); app.use("/api/", rateLimiter): every API
\* request passes speedLimiter, which may hold it, and then rateLimiter.
\* Both keep, per client address, the hits of the current window and the
\* time the window ends (the memory store of express-rate-limit, on which
\* express-slow-down is built).
WINDOW_MS == 60 * 1000
DELAY_AFTER == 30
RATE_MAX == 40

\* delayMs: (hits) => (hits - 30) * 500
\* A delay that does not grow with the count.
DelayMsFlat(hits) == 500

DelayMs(hits) == (hits - 30) * 500

\* The store's increment at time t: a window that has ended is replaced by a
\* new one opening at t; the hit is counted.
Increment(w, t) ==
    IF w.reset <= t THEN [hits |-> 1, reset |-> t + WINDOW_MS]
    ELSE [hits |-> w.hits + 1, reset |-> w.reset]

\* speedLimiter: the hold of a request counted as the hits-th of its window.
SlowDown(hits) == IF hits > DELAY_AFTER THEN DelayMs(hits) ELSE 0

\* A limit that already refuses the request that reaches the maximum.
RateLimitedAtMax(hits) == hits >= RATE_MAX

\* rateLimiter: whether a request counted as the hits-th of its window is
\* answered 429.
RateLimited(hits) == hits > RATE_MAX

\* Number of the times of log l that are at or after time t.
CountSince(l, t) == Cardinality({i \in 1..Len(l) : l[i] >= t})

\* Number of the times of log l that lie in the 60 seconds before time t.
CountTrailing(l, t) == Cardinality({i \in 1..Len(l) : l[i] > t - WINDOW_MS})

\* HardStep that takes the request back out of the count once it has been
\* let through.
HardStepSkipAdmitted(st, h, t) ==
    LET w == Increment(st.rw[h.addr], t)
    IN  [rw |-> [st.rw EXCEPT ![h.addr] =
                    IF RateLimited(w.hits) THEN w
                    ELSE [w EXCEPT !.hits = @ - 1]],
         reached |-> [st.reached EXCEPT ![h.addr] = Append(@, t)],
         decs |-> st.decs \cup
                  {[addr |-> h.addr, nth |-> h.nth, hold |-> h.hold,
                    prior |-> h.prior, at |-> t,
                    mth |-> 1 + CountSince(st.reached[h.addr], w.reset - WINDOW_MS),
                    rejected |-> RateLimited(w.hits)]}]

\* rateLimiter handles, at time t, the request h that speedLimiter let go.
\* st holds rateLimiter's store, the log of the times requests reached it and
\* the decisions taken in the current step.
HardStep(st, h, t) ==
    LET w == Increment(st.rw[h.addr], t)
    IN  [rw |-> [st.rw EXCEPT ![h.addr] = w],
         reached |-> [st.reached EXCEPT ![h.addr] = Append(@, t)],
         decs |-> st.decs \cup
                  {[addr |-> h.addr, nth |-> h.nth, hold |-> h.hold,
                    prior |-> h.prior, at |-> t,
                    mth |-> 1 + CountSince(st.reached[h.addr], w.reset - WINDOW_MS),
                    rejected |-> RateLimited(w.hits)]}]

RECURSIVE ReleaseDue(_, _)
\* The held requests hs go on to rateLimiter, each at the end of its hold,
\* in the order their holds end.
ReleaseDue(st, hs) ==
    IF hs = {} THEN st
    ELSE LET h == CHOOSE x \in hs : \A g \in hs : x.at <= g.at
         IN  ReleaseDue(HardStep(st, h, h.at), hs \ {h})

TotalArrivals == Len(seen["ip1"]) + Len(seen["ip2"])

\* speedLimiter counts a request of address a and either lets it go to
\* rateLimiter at once or holds it for its delay.
Counted(a) ==
    /\ LET w == Increment(speedWin[a], ms)
           h == [addr |-> a, at |-> ms + SlowDown(w.hits),
                 hold |-> SlowDown(w.hits),
                 nth |-> 1 + CountSince(seen[a], w.reset - WINDOW_MS),
                 prior |-> CountTrailing(seen[a], ms)]
           st == HardStep([rw |-> rateWin, reached |-> reached, decs |-> {}],
                          h, ms)
       IN  /\ speedWin' = [speedWin EXCEPT ![a] = w]
           /\ seen' = [seen EXCEPT ![a] = Append(@, ms)]
           /\ IF h.hold <= 0
              THEN /\ rateWin' = st.rw
                   /\ reached' = st.reached
                   /\ decs' = st.decs
                   /\ UNCHANGED held
              ELSE /\ held' = held \cup {h}
                   /\ decs' = {}
                   /\ UNCHANGED <<rateWin, reached>>
    /\ UNCHANGED <<ms, advances, pvars, xvars>>

\* A request of address a arrives.  The second address sends its few
\* requests in the first instant.
LimiterArrive(a) ==
    /\ TotalArrivals < MaxArrivals
    /\ a = "ip2" => (Len(seen[a]) < MaxOtherArrivals /\ advances = 0)
    /\ Counted(a)

\* The k-th move of the clock: to half a second before a minute has passed,
\* then past it, and so on.
AdvanceStep(k) == IF k % 2 = 0 THEN WINDOW_MS - 500 ELSE 500

\* The clock moves on by d, with no arrival meanwhile: the requests whose
\* hold ends in that time go on to rateLimiter.
PassedBy(d) ==
    /\ LET due == {h \in held : h.at <= ms + d}
           st == ReleaseDue([rw |-> rateWin, reached |-> reached, decs |-> {}],
                            due)
       IN  /\ held' = held \ due
           /\ rateWin' = st.rw
           /\ reached' = st.reached
           /\ decs' = st.decs
           /\ ms' = ms + d
    /\ advances' = advances + 1
    /\ UNCHANGED <<speedWin, seen, pvars, xvars>>

\* Time passes.
LimiterAdvance ==
    /\ advances < MaxAdvances
    /\ PassedBy(AdvanceStep(advances))

NextLimit ==
    \/ \E a \in Addrs : LimiterArrive(a)
    \/ LimiterAdvance

SpecLimit == Init /\ [][NextLimit]_vars

\* ---------------------------------------------- a flood, then silence
\* One client address uses up rateLimiter's maximum at once, sends again
\* shortly before its minute is over, and returns after a silence.

\* The k-th move of this client's clock: to 54 s, then on by 65.5 s.
QuietStep(k) == IF k % 2 = 0 THEN 54000 ELSE WINDOW_MS + 5500

\* A request of the client arrives; in the first instant it sends no more
\* than rateLimiter lets through.
QuietArrive ==
    /\ Len(seen["ip1"]) < MaxQuietArrivals
    /\ advances = 0 => Len(seen["ip1"]) < RATE_MAX
    /\ Counted("ip1")

\* Time passes; the first time, once the client has sent its first burst.
QuietAdvance ==
    /\ advances < MaxQuietAdvances
    /\ advances = 0 => Len(seen["ip1"]) = RATE_MAX
    /\ PassedBy(QuietStep(advances))

NextQuiet ==
    \/ QuietArrive
    \/ QuietAdvance

SpecQuiet == Init /\ [][NextQuiet]_vars

\* ------------------------------------------------------------- properties
\* Reading the log of a handler.
ParamNames(ps) == {ps[i][1] : i \in 1..Len(ps)}
HasParam(ps, n, v) == \E i \in 1..Len(ps) : ps[i] = <<n, v>>

MoviePaths == {"/search/movie", "/discover/movie"}

\* Indices of the strategy calls (title-search or discovery) of a handler.
StrategyCalls(p) == {i \in 1..Len(p.calls) : p.calls[i].path \in MoviePaths}

Accepted(r) == Validate(r) = "ok"

\* The call is a title-search for request r: its trimmed title, its page and
\* its year when it has one, and nothing else but include_adult.
IsTitleCall(c, r) ==
    /\ c.path = "/search/movie"
    /\ HasParam(c.params, "query", JStr(Trim(r.query.str)))
    /\ HasParam(c.params, "page", JNum(PageNum(r)))
    /\ Truthy(r.year) => HasParam(c.params, "primary_release_year", JStr(r.year.str))
    /\ ParamNames(c.params) =
          {"query", "page", "include_adult"}
          \cup (IF Truthy(r.year) THEN {"primary_release_year"} ELSE {})

\* C1 (as claimed): every validation failure (status 400) of a search is
\* returned before any upstream fetch of that request and leaves the cache
\* as it was.
C1_ValidationBeforeFetch ==
    \A s \in Slots :
        (slot[s].pc = "done" /\ slot[s].status = 400)
            => (slot[s].calls = <<>> /\ slot[s].net = 0 /\ ~slot[s].wrote)

TitleOnly(r) ==
    /\ Accepted(r)
    /\ Truthy(r.query)
    /\ ~Truthy(r.genre) /\ ~Truthy(r.cast) /\ ~Truthy(r.director)

\* C2: a request with a title and no genre, cast or director makes exactly
\* one upstream call, a title-search with the trimmed title, the page and the
\* year if supplied, and never calls discovery.
C2_TitleStrategy ==
    \A s \in Slots :
        (slot[s].pc # "idle" /\ TitleOnly(slot[s].req))
            => /\ Len(slot[s].calls) = 1
               /\ IsTitleCall(slot[s].calls[1], slot[s].req)

C2_Witness ==
    \E s \in Slots :
        /\ slot[s].pc = "done" /\ slot[s].status = 200
        /\ TitleOnly(slot[s].req)
        /\ Truthy(slot[s].req.year)
        /\ Trim(slot[s].req.query.str) # slot[s].req.query.str
        /\ slot[s].net = 1

\* The handler reached strategy selection with a filter that selects
\* discovery.
DiscoverCase(p) ==
    /\ StrategyCalls(p) # {}
    /\ \/ Truthy(p.req.genre)
       \/ p.castId # 0
       \/ p.directorId # 0
       \/ (Truthy(p.req.year) /\ ~Truthy(p.req.query))

FirstStrategyCall(p) ==
    p.calls[CHOOSE i \in StrategyCalls(p) : \A j \in StrategyCalls(p) : i <= j]

\* C3: with a genre, a resolved cast or director id, or a year and no title,
\* the primary call is discovery with the page, sort_by popularity.desc and
\* exactly the supplied filters; with_keywords is the (trimmed) title when a
\* title was supplied and is absent otherwise.
C3_DiscoverStrategy ==
    \A s \in Slots :
        DiscoverCase(slot[s]) =>
            LET p == slot[s]
                c == FirstStrategyCall(p)
                r == p.req
            IN  /\ c.path = "/discover/movie"
                /\ HasParam(c.params, "page", JNum(PageNum(r)))
                /\ HasParam(c.params, "sort_by", JStr(<<"popularity.desc">>))
                /\ Truthy(r.query) => HasParam(c.params, "with_keywords", JStr(Trim(r.query.str)))
                /\ Truthy(r.year) => HasParam(c.params, "primary_release_year", JStr(r.year.str))
                /\ Truthy(r.genre) => HasParam(c.params, "with_genres", JStr(r.genre.str))
                /\ p.castId # 0 => HasParam(c.params, "with_cast", JStr(NatToStr(p.castId)))
                /\ p.directorId # 0 => HasParam(c.params, "with_crew", JStr(NatToStr(p.directorId)))
                /\ ParamNames(c.params) =
                      {"page", "include_adult", "sort_by"}
                      \cup (IF Truthy(r.query) THEN {"with_keywords"} ELSE {})
                      \cup (IF Truthy(r.year) THEN {"primary_release_year"} ELSE {})
                      \cup (IF Truthy(r.genre) THEN {"with_genres"} ELSE {})
                      \cup (IF p.castId # 0 THEN {"with_cast"} ELSE {})
                      \cup (IF p.directorId # 0 THEN {"with_crew"} ELSE {})

C3_Witness ==
    \E s \in Slots :
        /\ slot[s].pc = "done" /\ slot[s].status = 200
        /\ DiscoverCase(slot[s])
        /\ Truthy(slot[s].req.year) /\ ~Truthy(slot[s].req.query)
        /\ ~Truthy(slot[s].req.genre)
        /\ slot[s].castId # 0 /\ slot[s].directorId # 0
        /\ slot[s].castId # slot[s].directorId

\* The document the i-th call of p returned, when it has returned.
Returned(p, i) == i <= Len(p.rets)

\* Discovery was the primary call of p, p has a title, and discovery
\* returned an empty result set.
FallbackCase(p) ==
    /\ Truthy(p.req.query)
    /\ \E i \in StrategyCalls(p) :
          /\ p.calls[i].path = "/discover/movie"
          /\ Returned(p, i) /\ EmptyResults(p.rets[i])

\* The answer built from document d for request r.
Shaped(d, r) ==
    [results |-> IF d.has THEN d.results ELSE <<>>,
     total_results |-> d.total_results, total_pages |-> d.total_pages,
     page |-> PageNum(r)]

\* C4: when discovery was primary, a title was supplied and discovery came
\* back empty, exactly one title-search with the same title, year and page
\* follows and its response is the one returned; otherwise there is no
\* second strategy call.
C4_Fallback ==
    \A s \in Slots :
        LET p == slot[s]
            n == Len(p.calls)
        IN  /\ FallbackCase(p) =>
                 /\ Cardinality(StrategyCalls(p)) = 2
                 /\ p.calls[n - 1].path = "/discover/movie"
                 /\ IsTitleCall(p.calls[n], p.req)
                 /\ (p.pc = "done" /\ p.status = 200) =>
                        (Returned(p, n) /\ p.body = Shaped(p.rets[n], p.req))
            /\ ~FallbackCase(p) => Cardinality(StrategyCalls(p)) <= 1

C4_Witness ==
    \E s \in Slots :
        /\ slot[s].pc = "done" /\ slot[s].status = 200
        /\ FallbackCase(slot[s])
        /\ slot[s].body.results = <<>>
        /\ Truthy(slot[s].req.year)
        /\ slot[s].castId # 0

\* The i-th call of p was a person-search that returned no person.
NoPerson(p, i) ==
    /\ p.calls[i].path = "/search/person"
    /\ Returned(p, i) /\ EmptyResults(p.rets[i])

\* C5: when the person-search for the cast name, or for the director name,
\* returns no person, the search ends as a success with no results, zero
\* totals and the requested page, and makes no further upstream call.
C5_UnresolvedName ==
    \A s \in Slots :
        \A i \in 1..Len(slot[s].calls) :
            NoPerson(slot[s], i) =>
                /\ slot[s].pc = "done" /\ slot[s].status = 200
                /\ slot[s].body = [results |-> <<>>, total_results |-> 0,
                                   total_pages |-> 0,
                                   page |-> PageNum(slot[s].req)]
                /\ Len(slot[s].calls) = i

C5_Witness ==
    \E s \in Slots :
        /\ Len(slot[s].calls) = 2
        /\ NoPerson(slot[s], 2)
        /\ slot[s].calls[2].stage = "director"
        /\ Truthy(slot[s].req.query)
        /\ slot[s].body.page = 2

\* C10: a request with none of title, year, genre, cast and director set
\* (each absent or empty) fails with MissingCriteria, status 400, whatever
\* its page.
C10_MissingCriteria ==
    \A s \in Slots :
        LET r == slot[s].req
        IN  (/\ slot[s].pc # "idle"
             /\ ~Truthy(r.query) /\ ~Truthy(r.year) /\ ~Truthy(r.genre)
             /\ ~Truthy(r.cast) /\ ~Truthy(r.director))
            => /\ slot[s].pc = "done"
               /\ slot[s].status = 400
               /\ slot[s].err = "MissingCriteria"

C10_Witness ==
    \E s \in Slots :
        /\ slot[s].err = "MissingCriteria"
        /\ slot[s].req.year = S(<<>>) /\ slot[s].req.genre = S(<<>>)
        /\ slot[s].req.cast = S(<<>>) /\ ~slot[s].req.query.def
        /\ slot[s].req.page = S(<<"0">>)

\* C6: a search identical to an earlier one that ended 200 having fetched
\* everything it read, arriving within the cache lifetime of that search's
\* start and with no store by any other request in between, makes no
\* network call: every one of its upstream requests is served from the cache
\* and it returns the same answer.
C6_SecondFromCache ==
    \A s \in Slots :
        (/\ slot[s].pc # "idle"
         /\ slot[s].warm.set
         /\ slot[s].start <= slot[s].warm.start + CACHE_TTL_SECONDS)
        => /\ slot[s].pc = "done"
           /\ slot[s].net = 0
           /\ \A i \in 1..Len(slot[s].calls) : slot[s].calls[i].hit
           /\ slot[s].status = 200
           /\ slot[s].body = slot[s].warm.body

C6_Witness ==
    \E s \in Slots :
        /\ slot[s].warm.set
        /\ slot[s].start = slot[s].warm.start + CACHE_TTL_SECONDS
        /\ Len(slot[s].calls) = 2
        /\ slot[s].net = 0

\* C7: a read of a key is served from the cache when it comes at most 600
\* seconds after the last store of that key, and is a miss when it comes
\* later (or the key was never stored), whether or not the periodic check
\* has removed the entry; a read in between does not lengthen that time.
C7_Lifetime ==
    \A s \in Slots :
        \A i \in 1..Len(slot[s].calls) :
            LET c == slot[s].calls[i]
            IN  c.hit <=> (c.age >= 0 /\ c.age <= 600)

\* A read of an entry that had expired and was still in the store, by a
\* request that follows two others (so the key was stored, and may have been
\* read, before).
C7_Witness ==
    \E s \in Slots :
        /\ started = 3
        /\ \E i \in 1..Len(slot[s].calls) :
              /\ ~slot[s].calls[i].hit
              /\ slot[s].calls[i].held
              /\ slot[s].calls[i].age > 600

C9_ProgressiveDelay ==
    \A r \in held \cup decs :
        /\ r.nth <= 30 => r.hold = 0
        /\ (31 <= r.nth /\ r.nth <= 40) => r.hold = (r.nth - 30) * 500

\* The 31st and the 40th request of one window are on hold together, for
\* 500 ms and 5000 ms.
C9_Witness ==
    /\ \E r \in held : r.nth = 31 /\ r.hold = 500
    /\ \E r \in held : r.nth = 40 /\ r.hold = 5000

\* ---------------------------------------------------------------------------
\* The year strings of the requests tried that denote an integer from 1880
\* to the current year plus 5: the two limits, 1880 after a blank, and
\* hexadecimal 7ab (1963).
YearsInRange ==
    {<<"1", "8", "8", "0">>, NatToStr(CurrentYear + 5),
     <<" ", "1", "8", "8", "0">>, <<"0", "x", "7", "a", "b">>}

\* C11: a search with a year fails with InvalidYear exactly when the year is
\* not an integer from 1880 to the current year plus 5, both limits accepted.
C11_InvalidYear ==
    \A s \in Slots :
        (slot[s].pc # "idle" /\ Truthy(slot[s].req.year))
            => ((slot[s].pc = "done" /\ slot[s].status = 400
                 /\ slot[s].err = "InvalidYear")
                <=> slot[s].req.year.str \notin YearsInRange)

\* A request whose year is the lower limit went on to its first fetch.
C11_Witness ==
    \E s \in Slots :
        /\ slot[s].req.year.str = <<"1", "8", "8", "0">>
        /\ slot[s].pc = "await"
        /\ ~Truthy(slot[s].req.query)

\* The page strings of the requests tried that denote an integer from 1 to
\* 500: the two limits and binary 10 (2).
PagesInRange == {<<"1">>, <<"5", "0", "0">>, <<"0", "b", "1", "0">>}

\* The request has a search field, and its year is absent or in range.
FieldAndValidYear(r) ==
    /\ \/ Truthy(r.query) \/ Truthy(r.year) \/ Truthy(r.genre)
       \/ Truthy(r.cast) \/ Truthy(r.director)
    /\ ~r.year.def \/ r.year.str \in YearsInRange

\* C12: a search with a search field and a valid year fails with InvalidPage
\* exactly when its page is not an integer from 1 to 500, both limits
\* accepted; an absent page is page 1.
C12_InvalidPage ==
    \A s \in Slots :
        (slot[s].pc # "idle" /\ FieldAndValidYear(slot[s].req)) =>
            LET p == slot[s]
            IN  /\ (p.pc = "done" /\ p.status = 400 /\ p.err = "InvalidPage")
                   <=> (p.req.page.def /\ p.req.page.str \notin PagesInRange)
                /\ (~p.req.page.def /\ p.calls # <<>>
                    /\ p.calls[1].path \in MoviePaths)
                   => HasParam(p.calls[1].params, "page",
                               [t |-> "number", v |-> <<"1">>])

\* A request with page 500 went on to its first fetch, a title-search for
\* page 500.
C12_Witness ==
    \E s \in Slots :
        /\ slot[s].req.page.str = <<"5", "0", "0">>
        /\ slot[s].pc = "await"
        /\ slot[s].calls[1].path = "/search/movie"
        /\ HasParam(slot[s].calls[1].params, "page",
                    [t |-> "number", v |-> <<"5", "0", "0">>])

\* C13 (as claimed): a search whose other fields are valid and whose cast or
\* director name has a trimmed length of 101 or more fails with NameTooLong,
\* and a name of trimmed length 100 or less is not refused for its length.
C13_NameTooLong ==
    \A s \in Slots :
        (slot[s].pc = "done" /\ Accepted(slot[s].req)) =>
            LET r == slot[s].req
                long == \/ Truthy(r.cast) /\ Len(Trim(r.cast.str)) >= 101
                        \/ Truthy(r.director) /\ Len(Trim(r.director.str)) >= 101
            IN  /\ long => (slot[s].status = 400 /\ slot[s].err = "NameTooLong")
                /\ ~long => slot[s].err # "NameTooLong"

\* The genre is present and is not one or more decimal digits (of the genre
\* strings tried, only 28 is).
BadGenre(r) == r.genre.def /\ r.genre.str # <<"2", "8">>

\* The handler refused the request for its genre, before any upstream call.
RefusedForGenre(p) ==
    /\ p.pc = "done" /\ p.status = 400 /\ p.err = "InvalidGenre"
    /\ p.calls = <<>> /\ p.net = 0

\* C14, as stated: a search whose genre is present and is not a string of
\* decimal digits fails with InvalidGenre before any name resolution or
\* strategy call.
C14_InvalidGenreAlways ==
    \A s \in Slots :
        (slot[s].pc # "idle" /\ BadGenre(slot[s].req))
            => RefusedForGenre(slot[s])

\* C14, amended: such a search fails with InvalidGenre, before any name
\* resolution or strategy call, when it has a non-empty search field, its
\* year is absent or valid and its page is absent or valid; otherwise it
\* fails with the error of the earlier check, also before any upstream call.
C14_InvalidGenre ==
    \A s \in Slots :
        (slot[s].pc # "idle" /\ BadGenre(slot[s].req)) =>
            LET p == slot[s]
                early == /\ FieldAndValidYear(p.req)
                         /\ ~p.req.page.def \/ p.req.page.str \in PagesInRange
            IN  /\ early => RefusedForGenre(p)
                /\ ~early =>
                      /\ p.pc = "done" /\ p.status = 400
                      /\ p.err \in {"MissingCriteria", "InvalidYear", "InvalidPage"}
                      /\ p.calls = <<>> /\ p.net = 0

\* A request with a cast name to resolve and the genre " 28" was refused for
\* its genre.
C14_Witness ==
    \E s \in Slots :
        /\ RefusedForGenre(slot[s])
        /\ slot[s].req.genre.str = <<" ", "2", "8">>
        /\ Truthy(slot[s].req.cast)
        /\ slot[s].req.year.def

\* The page a request asks for, of the page values tried: 1 when absent, 2
\* for "2".
RequestedPage(r) ==
    IF ~r.page.def THEN 1 ELSE IF r.page.str = <<"2">> THEN 2 ELSE 0 - 1

\* C15: every successful search response has the four fields results,
\* total_results, total_pages and page, and its page is the page the client
\* asked for, not the upstream document's, whichever path produced it.
C15_RequestedPage ==
    \A s \in Slots :
        (slot[s].pc = "done" /\ slot[s].status = 200) =>
            /\ DOMAIN slot[s].body =
                  {"results", "total_results", "total_pages", "page"}
            /\ slot[s].body.page = RequestedPage(slot[s].req)

\* A search for page 2 answered from the fallback call, whose upstream
\* document said page 9.
C15_Witness ==
    \E s \in Slots :
        /\ slot[s].pc = "done" /\ slot[s].status = 200
        /\ FallbackCase(slot[s])
        /\ slot[s].rets[Len(slot[s].rets)].page = 9
        /\ slot[s].body.page = 2
        /\ slot[s].body.results # <<>>

\* ---------------------------------------------------------------------------
\* The route parameters tried that are 0, negative or not an integer.
BadMovieIds == {<<"0">>, <<"-", "5">>, <<"1", ".", "5">>, <<"x">>, <<" ">>}

\* C16: a movie lookup whose id is 0, negative or not an integer fails with
\* InvalidMovieId (400) without a cache read or a network call; for a valid
\* id, an upstream 404 is answered 404 and every other upstream failure 502.
C16_MovieErrors ==
    /\ (movie.pc # "idle" /\ movie.id \in BadMovieIds) =>
          /\ movie.pc = "done" /\ movie.status = 400
          /\ movie.err = "InvalidMovieId"
          /\ movie.reads = 0 /\ movie.net = 0
    /\ (movie.pc = "done" /\ movie.fail.set) =>
          /\ movie.id \notin BadMovieIds
          /\ movie.status =
                IF movie.fail.response /\ movie.fail.status = 404
                THEN 404 ELSE 502

\* The second lookup of a run met an upstream 404 and answered 404.
C16_Witness ==
    /\ movie.pc = "done" /\ lookups = 2
    /\ movie.fail.set /\ movie.fail.status = 404
    /\ movie.status = 404 /\ movie.err = "UpstreamNotFound"

\* ---------------------------------------------------------------------------
\* The last tmdbFetch call of p went to the network and never returned.
FetchFailed(p) ==
    /\ p.pc = "done"
    /\ Len(p.calls) > Len(p.rets)
    /\ ~p.calls[Len(p.calls)].hit

\* C17: an upstream failure in any fetch of a search, whatever its kind, ends
\* the request with status 502 and the generic error: no result is returned
\* and the upstream status is not passed on.
C17_UpstreamFailure ==
    \A s \in Slots :
        (slot[s].fail.set \/ FetchFailed(slot[s])) =>
            /\ slot[s].fail.set /\ FetchFailed(slot[s])
            /\ slot[s].status = 502
            /\ slot[s].err = "UpstreamUnavailable"
            /\ slot[s].body = NoBody

\* The fallback title-search, after a resolved cast name and an empty
\* discovery, met an upstream 404 and the search was answered 502.
C17_Witness ==
    \E s \in Slots :
        /\ FetchFailed(slot[s])
        /\ Len(slot[s].calls) = 3
        /\ slot[s].calls[3].stage = "fallback"
        /\ slot[s].fail.response /\ slot[s].fail.status = 404
        /\ slot[s].status = 502

\* ------------------------------------------------- limiters before handler
\* What rateLimiter does with a request it has counted: next() for all.
AdmittedAlways(d) == TRUE

\* What rateLimiter does with a request it has counted: next(), unless it
\* answers 429.
Admitted(d) == ~d.rejected

ApiRequests ==
    {Req(S(<<"a">>), Undefined, Undefined, Undefined, Undefined, Undefined),
     NoRequest}

ApiDocs == {Doc(TRUE, <<155, 272>>, 40, 2, 9)}

\* The request h, which speedLimiter has let go, reaches rateLimiter at time
\* t; if rateLimiter passes it on, the search handler takes it.  The limiters
\* do not look at the query string r, which is drawn here.
ApiPass(h, r, t) ==
    LET st == HardStep([rw |-> rateWin, reached |-> reached, decs |-> {}], h, t)
        d == CHOOSE x \in st.decs : TRUE
        s == CHOOSE x \in Slots :
                /\ slot[x].pc \in {"idle", "done"}
                /\ \A y \in Slots : y < x => slot[y].pc = "await"
        res == Search(r, cache, now, stored)
    IN  /\ \E x \in Slots : slot[x].pc \in {"idle", "done"}
        /\ rateWin' = st.rw
        /\ reached' = st.reached
        /\ decs' = st.decs
        /\ IF Admitted(d)
           THEN /\ slot' = [slot EXCEPT ![s] = res.p]
                /\ cache' = res.c
                /\ started' = started + 1
           ELSE UNCHANGED <<slot, cache, started>>

\* A request r of address a arrives at /api/search: speedLimiter counts it
\* and holds it or lets it go on at once.  The requests all arrive in one
\* burst, before the first hold has ended.
ApiArrive(a, r) ==
    /\ Len(seen[a]) < MaxArrivals
    /\ advances = 0
    /\ LET w == Increment(speedWin[a], ms)
           h == [addr |-> a, at |-> ms + SlowDown(w.hits),
                 hold |-> SlowDown(w.hits),
                 nth |-> 1 + CountSince(seen[a], w.reset - WINDOW_MS),
                 prior |-> CountTrailing(seen[a], ms)]
       IN  /\ speedWin' = [speedWin EXCEPT ![a] = w]
           /\ seen' = [seen EXCEPT ![a] = Append(@, ms)]
           /\ IF h.hold <= 0
              THEN /\ ApiPass(h, r, ms)
                   /\ UNCHANGED held
              ELSE /\ held' = held \cup {h}
                   /\ decs' = {}
                   /\ UNCHANGED <<rateWin, reached, slot, cache, started>>
    /\ UNCHANGED <<ms, advances, now, stored, lastCold, xvars>>

\* The hold of request h has ended.
ApiRelease(h, r) ==
    /\ h \in held
    /\ h.at <= ms
    /\ \A g \in held : h.at <= g.at
    /\ held' = held \ {h}
    /\ ApiPass(h, r, ms)
    /\ UNCHANGED <<ms, advances, speedWin, seen, now, stored, lastCold, xvars>>

\* Time passes until the next hold ends.
ApiAdvance ==
    /\ held # {}
    /\ \A h \in held : h.at > ms
    /\ ms' = (CHOOSE h \in held : \A g \in held : h.at <= g.at).at
    /\ advances' = advances + 1
    /\ UNCHANGED <<speedWin, rateWin, held, seen, reached, decs, pvars, xvars>>

NextApi ==
    \/ \E r \in ApiRequests : ApiArrive("ip1", r)
    \/ \E h \in held, r \in ApiRequests : ApiRelease(h, r)
    \/ ApiAdvance
    \/ \E s \in Slots, d \in ApiDocs : NetReply(s, d)
    \/ \E s \in Slots, f \in CoreFailures : NetFail(s, f)

SpecApi == Init /\ [][NextApi]_vars

\* ---------------------------------------------------------------------------
\* Position of the last input event before position k of the log, or 0.
LastInputBefore(k) ==
    IF \E j \in 1..(k - 1) : flog[j].type = "input"
    THEN CHOOSE j \in 1..(k - 1) :
            /\ flog[j].type = "input"
            /\ \A i \in (j + 1)..(k - 1) : flog[i].type # "input"
    ELSE 0

PairSet(ps) == {ps[i] : i \in DOMAIN ps}

C20_NeverOverwritten ==
    [][/\ \A k \in DOMAIN cache :
             cache[k].t >= now => (k \in DOMAIN cache' /\ cache'[k] = cache[k])
       /\ slot' # slot => DOMAIN cache \subseteq DOMAIN cache']_vars

\* The handler's last cache read found no unexpired entry: none at all, or
\* one stored more than 600 seconds before.
ReadMissed(p) ==
    /\ p.calls # <<>>
    /\ LET c == p.calls[Len(p.calls)]
       IN  /\ ~c.hit
           /\ ~c.held \/ c.age > 600

\* C20, amended: a value is stored under a key only by a request that found
\* no unexpired entry for that key when it read the cache (so a request that
\* missed while another was fetching the same key overwrites the other's
\* unexpired entry and resets its expiry), and an entry that disappears was
\* expired.
C20_StoredAfterMiss ==
    [][/\ \A k \in DOMAIN cache' :
             (k \notin DOMAIN cache \/ cache'[k] # cache[k]) =>
                \E s \in Slots : /\ slot[s].pc = "await"
                                 /\ slot[s].key = k
                                 /\ slot'[s].pc # "await" \/ slot'[s].key # k
                                 /\ ReadMissed(slot[s])
       /\ \A k \in (DOMAIN cache) \ (DOMAIN cache') : cache[k].t < now]_vars

\* Two requests missed on one key while both were in flight; both stored, and
\* the document of the first is no longer the one in the cache although its
\* entry, stored at most 600 seconds ago, had not expired.
C20_Witness ==
    \E s1, s2 \in Slots :
        /\ s1 # s2
        /\ slot[s1].pc = "done" /\ slot[s1].status = 200
        /\ slot[s2].pc = "done" /\ slot[s2].status = 200
        /\ Len(slot[s1].calls) = 1 /\ ~slot[s1].calls[1].hit
        /\ Len(slot[s2].calls) = 1 /\ ~slot[s2].calls[1].hit
        /\ slot[s1].key = slot[s2].key
        /\ slot[s1].start = 0 /\ slot[s2].start = 0
        /\ slot[s1].key \in DOMAIN cache
        /\ cache[slot[s1].key].v # slot[s1].data
        /\ cache[slot[s1].key].v = slot[s2].data
        /\ now = 300
        /\ cache[slot[s1].key].t = 900

\* ---------------------------------------------------------------------------
\* C21 as stated: a search request issues at most three upstream fetches.
C21_AtMostThree == \A s \in Slots : slot[s].net <= 3

\* The fetches of a handler come one after the other: each but the last has
\* returned, and the last is outstanding or has failed if it has not.
InSequence(p) ==
    /\ Len(p.calls) - 1 <= Len(p.rets)
    /\ Len(p.rets) <= Len(p.calls)
    /\ (Len(p.rets) < Len(p.calls)) =>
          (p.pc = "await" \/ (p.pc = "done" /\ p.status = 502))

\* C21, amended: a search request issues at most four upstream fetches, in
\* sequence, and more than three only when castName, directorName and
\* titleQuery are all given.
C21_AtMostFour ==
    \A s \in Slots :
        /\ Len(slot[s].calls) <= 4
        /\ slot[s].net <= Len(slot[s].calls)
        /\ InSequence(slot[s])
        /\ Len(slot[s].calls) > 3 =>
              /\ slot[s].req.cast.def /\ slot[s].req.cast.str # <<>>
              /\ slot[s].req.director.def /\ slot[s].req.director.str # <<>>
              /\ slot[s].req.query.def /\ slot[s].req.query.str # <<>>

\* A request with cast, director and title went to the network four times:
\* two person-searches, the discovery call and the fallback title-search.
C21_Witness ==
    \E s \in Slots :
        /\ slot[s].pc = "done" /\ slot[s].status = 200
        /\ slot[s].net = 4
        /\ Len(slot[s].calls) = 4
        /\ slot[s].calls[1].path = "/search/person"
        /\ slot[s].calls[2].path = "/search/person"
        /\ slot[s].calls[3].path = "/discover/movie"
        /\ slot[s].calls[4].path = "/search/movie"

\* ---------------------------------------------------------------------------
Given(f) == f.def /\ f.str # <<>>

\* Positions, among a handler's calls, of the cast resolution, the director
\* resolution and the primary call.
CastCall(p) == 1
DirectorCall(p) == IF Given(p.req.cast) THEN 2 ELSE 1
PrimaryCall(p) ==
    1 + (IF Given(p.req.cast) THEN 1 ELSE 0)
      + (IF Given(p.req.director) THEN 1 ELSE 0)

\* The person-search at position i has returned a non-empty result set.
Resolved(p, i) ==
    /\ Len(p.rets) >= i
    /\ p.rets[i].has /\ p.rets[i].results # <<>>

\* The primary call of p is there, came after the person-search at position
\* i had returned, is a discovery call and carries under name n the id of
\* the first person that search returned.
CarriesFirst(p, i, n) ==
    /\ i < PrimaryCall(p)
    /\ \A j \in 1..i : p.calls[j].path = "/search/person"
    /\ p.calls[PrimaryCall(p)].path = "/discover/movie"
    /\ HasParam(p.calls[PrimaryCall(p)].params, n,
                JStr(NatToStr(p.rets[i].results[1])))

C24_DelayUnderCeiling ==
    /\ \A d \in decs : d.hold > 0 => ~d.rejected
    /\ \A d \in decs : d.rejected => d.hold = 0
    /\ \A r \in held \cup decs : r.hold <= 5000

\* ---------------------------------------------------------------------------
\* C25: abuse control is evaluated exactly once per inbound API request and
\* before the handler: each request is counted once by speedLimiter and, once
\* let go, once by rateLimiter; a handler starts only in the step in which
\* rateLimiter lets its request through, and a request answered RateLimited
\* starts no handler (no validation, no upstream fetch) and leaves the cache
\* as it was.
C25_LimitedFirst ==
    [][/\ \A a \in Addrs :
             Len(seen'[a]) =
                Len(reached'[a]) + Cardinality({h \in held' : h.addr = a})
       /\ started' # started =>
             /\ started' = started + 1
             /\ \E a \in Addrs : Len(reached'[a]) = Len(reached[a]) + 1
             /\ \A d \in decs' : ~d.rejected
       /\ (reached' # reached /\ \E d \in decs' : d.rejected) =>
             /\ slot' = slot
             /\ cache' = cache
             /\ started' = started]_vars

\* A 41st request of a window has been answered RateLimited while an earlier
\* one of the same address was served by the handler from the upstream.
C25_Witness ==
    /\ \E d \in decs : d.rejected /\ d.mth = 41
    /\ started = 40
    /\ \E s \in Slots : slot[s].status = 200 /\ slot[s].pc = "done"
    /\ cache # <<>>

\* ---------------------------------------------------------------------------
\* C26: the window of a client address resets as it rolls: an address that
\* was answered RateLimited and then sent no request for 60 seconds is let
\* through, without any hold, on its next request.
RECURSIVE WindowOpening(_, _, _)
\* The opening time of the window in which a request that reached the
\* limiter at time t was counted, by the log l of the times requests reached
\* it; s is the opening of a window at or before t.  A window that has
\* ended is replaced when the next request arrives.
WindowOpening(l, s, t) ==
    IF t < s + WINDOW_MS THEN s
    ELSE LET later == {l[i] : i \in {j \in 1..Len(l) : l[j] >= s + WINDOW_MS}}
         IN  WindowOpening(l, CHOOSE x \in later : \A y \in later : x <= y, t)

\* The count rateLimiter gave the k-th request of log l.
HitsAt(l, k) ==
    LET s == WindowOpening(l, l[1], l[k])
    IN  Cardinality({i \in 1..k : l[i] >= s})

\* The times at which a request of address a was answered RateLimited.
RejectedAt(a) ==
    {reached[a][k] : k \in {i \in 1..Len(reached[a]) :
                               RateLimited(HitsAt(reached[a], i))}}

\* The latest request of address a came after a refusal and 60 seconds
\* without a request.
AfterQuiet(a) ==
    LET n == Len(seen[a])
    IN  /\ n >= 2
        /\ \E r \in RejectedAt(a) :
              seen[a][n - 1] <= r /\ seen[a][n] >= r + WINDOW_MS

C26_AdmittedAfterQuiet ==
    \A a \in Addrs :
        AfterQuiet(a) =>
            LET t == seen[a][Len(seen[a])]
            IN  /\ \A h \in held : h.addr = a => h.at - h.hold # t
                /\ \A d \in decs :
                      (d.addr = a /\ d.at - d.hold = t)
                          => (~d.rejected /\ d.hold = 0)

\* ---------------------------------------------------------------------------
\* C27: every search request that reached the handler eventually receives
\* exactly one response, a success, a 400 or a 502, even when the upstream
\* never answers: a handler suspended at a fetch is eventually done, a
\* response once sent is only replaced by the start of a new request, and its
\* status is 200, 400 or 502.
C27_ExactlyOneResponse ==
    /\ \A s \in Slots : (slot[s].pc = "await") ~> (slot[s].pc = "done")
    /\ [][\A s \in Slots :
              (slot[s].pc = "done" /\ slot'[s] # slot[s])
                  => started' = started + 1]_vars
    /\ [](\A s \in Slots :
              slot[s].pc = "done" => slot[s].status \in {200, 400, 502})

\* A request whose fetch got no answer from the upstream was answered 502, and
\* another one, suspended meanwhile, was answered too.
C27_Witness ==
    \E s, x \in Slots :
        /\ s # x
        /\ slot[s].pc = "done" /\ slot[s].status = 502 /\ slot[s].net >= 1
        /\ slot[s].fail.set /\ ~slot[s].fail.response
        /\ slot[x].pc = "done" /\ slot[x].net >= 1

\* ---------------------------------------------------------------------------
\* C28: a failed upstream fetch stores nothing: the step in which a fetch ends
\* in a failure leaves the cache as it was, and when the request is sent again
\* its fetch for the same key misses the cache and goes to the network.
C28_FailureNotStored ==
    [][\A s \in Slots :
          /\ (slot[s].pc = "await" /\ slot'[s].pc = "done" /\ slot'[s].fail.set)
                 => cache' = cache
          /\ (slot[s].pc = "done" /\ slot[s].fail.set /\ started' = started + 1)
                 => /\ slot'[s].pc = "await"
                    /\ slot'[s].key = slot[s].key
                    /\ slot'[s].net = 1
                    /\ ~slot'[s].calls[Len(slot'[s].calls)].hit]_vars

\* A request sent a second time is suspended at a fetch whose key was never
\* stored, after a call that was served from the cache: its first run failed
\* at that fetch.
C28_Witness ==
    \E s \in Slots :
        LET p == slot[s]
        IN  /\ started = 2 /\ p.pc = "await" /\ Len(p.calls) >= 2
            /\ p.calls[1].hit
            /\ ~p.calls[Len(p.calls)].hit
            /\ p.calls[Len(p.calls)].age = -1
            /\ p.key \notin DOMAIN cache

\* ---------------------------------------------------------------------------
\* C29: the title search made as the fallback has the cache key of a direct
\* title search with the same title, year and page.  A title-only request
\* that follows a request that fell back, within the lifetime of the entry
\* the fallback left, is answered without a network call; and a request that
\* falls back within 600 seconds of a title-only request with the same
\* values has its fallback call served from the cache.
TitleAlone(r) == Truthy(r.query) /\ ~UseDiscover(r, 0, 0)

SameTitleValues(r1, r2) ==
    /\ Trim(r1.query.str) = Trim(r2.query.str)
    /\ r1.year = r2.year
    /\ PageNum(r1) = PageNum(r2)

FallbackCalls(p) == {i \in 1..Len(p.calls) : p.calls[i].stage = "fallback"}

FallbackKey(r) == CacheKey("/search/movie", FallbackParams(r))

C29_FallbackSharesKey ==
    [][/\ (/\ slot[1].pc = "done" /\ slot[1].status = 200
           /\ FallbackCalls(slot[1]) # {}
           /\ started' = started + 1
           /\ TitleAlone(slot'[1].req)
           /\ SameTitleValues(slot[1].req, slot'[1].req)
           /\ FallbackKey(slot[1].req) \in DOMAIN stored
           /\ now <= stored[FallbackKey(slot[1].req)] + CACHE_TTL_SECONDS)
          => /\ slot'[1].pc = "done" /\ slot'[1].status = 200
             /\ slot'[1].net = 0
             /\ Len(slot'[1].calls) = 1 /\ slot'[1].calls[1].hit
             /\ slot'[1].body = slot[1].body
       /\ \A s \in Slots :
             (/\ slot[s].pc = "await"
              /\ lastCold.set /\ TitleAlone(lastCold.req)
              /\ SameTitleValues(lastCold.req, slot[s].req)
              /\ now <= lastCold.start + CACHE_TTL_SECONDS
              /\ FallbackCalls(slot'[s]) # {})
             => /\ \A i \in FallbackCalls(slot'[s]) : slot'[s].calls[i].hit
                /\ slot'[s].pc = "done"
                /\ slot'[s].net = slot[s].net
                /\ slot'[s].body = lastCold.body]_vars

\* The second request, title-only, was answered from an entry that an
\* earlier request left some time before; the request before it was not a
\* title-only one that succeeded, so the entry is the one of a fallback.
C29_Witness ==
    /\ started = 2
    /\ TitleAlone(slot[1].req)
    /\ slot[1].pc = "done" /\ slot[1].status = 200
    /\ slot[1].net = 0
    /\ ~slot[1].warm.set
    /\ slot[1].calls[1].hit /\ slot[1].calls[1].age > 0


\* ---------------------------------------------------------------------------
\* C30: when several searches are in flight and their answers arrive in any
\* order, then once all have arrived the query and page of the frontend's
\* state are those of the search issued last, and so is the results list
\* when that search was not a "load more".
C30_LatestSearchWins ==
    (/\ flights = {}
     /\ sent # <<>>
     /\ \A i \in 1..Len(arrivals) : arrivals[i].ok)
    => LET last == sent[Len(sent)]
       IN  /\ state.query = last.query
           /\ state.page = last.page
           /\ ~last.append
                 => /\ state.results = UiDoc(last.query, last.page).results
                    /\ grid = state.results
====
